---- MODULE Spec2Model ----
(***************************************************************************)
(* Telemetria: wire codec (core/protocol.py, the sender's framing, the     *)
(* receivers' inline decoding), alert engine (core/alerts.py), the receive *)
(* loops (receiver_notebook.py, web/server.py), the sender's collection    *)
(* loop (sender_pc.py), the history store (core/history.py), the sensor    *)
(* reduction (hardware_monitor.py) and the colouring of values against     *)
(* thresholds (receiver_notebook.py, the page of web/server.py).           *)
(*                                                                         *)
(* The specifications that share the module:                               *)
(*   SpecCodec     encode / frame / damage / decode of one datagram        *)
(*   SpecAlert     AlertManager under concurrent callers                   *)
(*   SpecDispatch  one caller, the dispatch threads it starts, and         *)
(*                 reconfiguration while they run                          *)
(*   SpecProbe     test_connection interleaved with send_alert             *)
(*   SpecCreds     every filling of the credentials: alert, dispatch,      *)
(*                 probe                                                   *)
(*   SpecRecv      the two UDP receive loops                               *)
(*   SpecLive      the receivers' connected flag as the clock runs         *)
(*   SpecRestart   the dashboard's receive thread and its restart signal   *)
(*   SpecSender    the sender's collection loop, pause and quit            *)
(*   SpecLoop      the same, the loop's thread scheduled for ever          *)
(*   SpecProcess   the sender's process: the loop and the return of run    *)
(*   SpecHist      the history store: record, queries, cleanup, vacuum     *)
(*   SpecHistLock  two threads on the history store                        *)
(*   SpecClass     thresholds saved, values drawn on dashboard and page    *)
(*   SpecMonitor   fetch_data over the orderings of a machine's sensors    *)
(*   SpecStorage   fetch_data over the sensors of one storage device       *)
(*   SpecSensors   fetch_data over CPU totals, fans and disk health        *)
(* Each leaves the other components' variables at their initial values.    *)
(***************************************************************************)
EXTENDS Integers, Sequences, FiniteSets, TLC

VARIABLES
    \* ---- codec ----
    c_stage,      \* "start" | "wire" | "decoded"
    c_doc,        \* the document the datagram was made from (NoDoc: none)
    c_how,        \* how the datagram was made
    c_wire,       \* the datagram's bytes
    c_by,         \* which decoder ran: "core" | "receiver" | "-"
    c_result,     \* the decoder's outcome
    \* ---- alert engine ----
    a_config,     \* AlertManager.config
    a_last_alerts,\* AlertManager.last_alerts: key -> time, NoEntry when absent
    a_lock,       \* AlertManager._lock: 0 when free, else the holding thread
    a_clock,      \* time.time()
    a_th,         \* per calling thread: position and locals
    a_disp,       \* the running dispatch threads (_send_all)
    a_granted,    \* history: per key, the time of the latest call that passed the
                  \* cooldown check since the last clear (NoEntry: none)
    a_clears,     \* number of clear_cooldowns calls made
    a_calls,      \* number of send_alert calls made
    a_updates,    \* number of update_config calls made
    p_test,       \* test_connection: position, the results so far, what each probe met
    p_count,      \* number of test_connection calls made
    \* ---- receive loops ----
    r_proc,       \* the receiver program that runs: "notebook" or "web"
    r_clock,      \* time.time()
    r_count,      \* number of datagrams received
    r_dgram,      \* history: the datagram received last: its receiver, its source,
                  \* whether its payload decodes, how it fared
    nb_sender_ip, \* TelemetryDashboard.sender_ip ("": automatic mode)
    nb,           \* TelemetryDashboard: current_data, last_data_time, history
    nb_decoded,   \* history: the document of the last datagram the dashboard decoded
    web,          \* TelemetryWebServer: current_data, last_update, _running
    web_decoded,  \* history: the document of the last datagram the web server decoded
    r_seen,       \* history: the time of the last datagram the receiver decoded (0: none)
    r_flag,       \* the connected flag as last computed, and what it should have been
    \* ---- the dashboard's receive thread and its restart signal ----
    porta,            \* TelemetryDashboard.porta
    restart_receiver, \* TelemetryDashboard.restart_receiver
    rx,               \* _receiver_loop: position, the port its socket is bound to (0: no
                      \* socket), failed binds
    ui,               \* _save_all_settings: position, number of saves made
    rs_owed,          \* history: the port configured when the last restart signal was
                      \* raised, until a socket is bound on it (0: nothing owed)
    \* ---- the sender's collection loop ----
    running,          \* TelemetrySender.running
    paused,           \* TelemetrySender.paused
    INTERVALO,        \* sender_pc.INTERVALO, in tenths of a second
    snd,              \* _sender_loop: position; of the current pass: what line 349 found,
                      \* whether a datagram went out, whether the pass raised; the length
                      \* of the last sleep; history: a pass has been skipped
    s_toggles,        \* number of _toggle_pause calls made
    \* ---- the history store ----
    h_rows,           \* the metrics table, in insertion order: timestamp and columns
    h_lock,           \* TelemetryHistory._lock: 0 (free) or the thread that holds it
    h_clock,          \* the clock of the store, in hours
    h_retention,      \* TelemetryHistory.retention_days
    h_th,             \* per thread: the call it is in, its arguments, its position, the
                      \* row of its open transaction, what it returned
    h_writes,         \* number of record and cleanup_old calls made
    h_ticks,          \* number of times the clock has moved
    \* ---- the hardware monitor ----
    m_hw,             \* Computer.Hardware: the devices and their sensors, in the order
                      \* they are enumerated
    m_data,           \* the dictionary fetch_data returned last (NoData: not called)
    \* ---- the colouring of a value against its thresholds ----
    k_alertas,        \* CONFIG["alertas"]: the warning and critical threshold of a metric
    k_call,           \* the last _update_value call: its arguments and the colour it set
    k_page            \* the last getClass call of the page: its arguments and its result

codecVars == <<c_stage, c_doc, c_how, c_wire, c_by, c_result>>
alertVars == <<a_config, a_last_alerts, a_lock, a_clock, a_th, a_disp, a_granted,
               a_clears, a_calls, a_updates>>
recvVars == <<r_proc, r_clock, r_count, r_dgram, nb_sender_ip, nb, nb_decoded, web, web_decoded,
              r_seen, r_flag>>
probeVars == <<p_test, p_count>>
restartVars == <<porta, restart_receiver, rx, ui, rs_owed>>
senderVars == <<running, paused, INTERVALO, snd, s_toggles>>
histVars == <<h_rows, h_lock, h_clock, h_retention, h_th, h_writes, h_ticks>>
monVars == <<m_hw, m_data>>
classVars == <<k_alertas, k_call, k_page>>
vars == <<codecVars, alertVars, probeVars, recvVars, restartVars, senderVars, histVars,
          monVars, classVars>>

\* what an action of one component leaves alone
notCodec == <<alertVars, probeVars, recvVars, restartVars, senderVars, histVars, monVars, classVars>>
notAlert == <<codecVars, probeVars, recvVars, restartVars, senderVars, histVars, monVars, classVars>>
notRecv  == <<codecVars, alertVars, probeVars, restartVars, senderVars, histVars, monVars, classVars>>
notProbe == <<codecVars, recvVars, restartVars, senderVars, histVars, monVars, classVars>>
notRestart == <<codecVars, alertVars, probeVars, recvVars, senderVars, histVars, monVars, classVars>>
notSender == <<codecVars, alertVars, probeVars, recvVars, restartVars, histVars, monVars, classVars>>
notHist == <<codecVars, alertVars, probeVars, recvVars, restartVars, senderVars,
            monVars, classVars>>
notMon == <<codecVars, alertVars, probeVars, recvVars, restartVars, senderVars, histVars,
           classVars>>
notClass == <<codecVars, alertVars, probeVars, recvVars, restartVars, senderVars, histVars,
             monVars>>

(***************************************************************************)
(* Bytes.  A datagram is a sequence over a ten-symbol alphabet; each       *)
(* symbol stands for the byte (or byte group) the code tests for.          *)
(***************************************************************************)
RAW      == 0   \* MagicByte.RAW  0x00
GZIP     == 1   \* MagicByte.GZIP 0x01
MSGPACK  == 2   \* MagicByte.MSGPACK 0x02 (reserved)
PROTOBUF == 3   \* MagicByte.PROTOBUF 0x03 (reserved)
GZMAGIC  == 4   \* the gzip member header (1f 8b ...)
LBRACE   == 5   \* '{'
RBRACE   == 6   \* '}'
CATOBJ   == 7   \* text of a category whose value is an object
CATNUM   == 8   \* text of a category whose value is a number
BADBYTE  == 9   \* 0xff: not valid UTF-8, not a valid deflate code

Byte == RAW..BADBYTE

\* Bounds of the model
MaxLen        == 4   \* longest arbitrary datagram enumerated
MaxDocLen     == 8   \* most categories in a document
MaxCorruptLen == 2   \* documents up to this size have their frames corrupted

SeqsUpTo(S, n) == UNION {[1..k -> S] : k \in 0..n}

ShortBufs == SeqsUpTo(Byte, MaxLen)

(***************************************************************************)
(* Documents.  A JSON text parses to an object with a list of categories   *)
(* (cpu first, gpu second, ...), each object-valued or number-valued, or   *)
(* to a bare scalar.                                                       *)
(***************************************************************************)
NoDoc == [top |-> "none", cats |-> <<>>]
ScalarDoc == [top |-> "scalar", cats |-> <<>>]
ObjectDocs(n) == {[top |-> "object", cats |-> s] : s \in SeqsUpTo({CATOBJ, CATNUM}, n)}
Docs == ObjectDocs(MaxDocLen) \cup {ScalarDoc}

\* json.dumps(data).encode('utf-8')
Dumps(d) ==
    IF d.top = "scalar" THEN <<CATNUM>>
    ELSE <<LBRACE>> \o d.cats \o <<RBRACE>>

\* bytes.decode('utf-8'): fails on a byte that is not valid UTF-8
Utf8Ok(b) == \A i \in 1..Len(b) : b[i] \notin {BADBYTE, GZMAGIC}

\* json.loads(text): a document, or NoDoc for JSONDecodeError
Loads(b) ==
    IF b = <<CATNUM>> THEN ScalarDoc
    ELSE IF /\ Len(b) >= 2
            /\ b[1] = LBRACE
            /\ b[Len(b)] = RBRACE
            /\ \A i \in 2..(Len(b) - 1) : b[i] \in {CATOBJ, CATNUM}
         THEN [top |-> "object", cats |-> SubSeq(b, 2, Len(b) - 1)]
         ELSE NoDoc

(***************************************************************************)
(* gzip.  A member is header, deflate stream, end-of-stream code, CRC.     *)
(* The deflate stream is run-length pairs <<count, byte>>, count in        *)
(* 1..MaxRun; code 0 ends the stream; a larger code is invalid.            *)
(***************************************************************************)
EOS    == RAW
MaxRun == BADBYTE - 1

RECURSIVE SumBytes(_)
SumBytes(b) == IF b = <<>> THEN 0 ELSE Head(b) + SumBytes(Tail(b))

Crc(b) == SumBytes(b) % (BADBYTE + 1)

RECURSIVE RunLen(_, _)
\* length of the run of x at the head of b, at most MaxRun
RunLen(b, x) ==
    IF b = <<>> \/ Head(b) # x THEN 0
    ELSE LET r == RunLen(Tail(b), x) IN IF r >= MaxRun - 1 THEN MaxRun ELSE r + 1

RECURSIVE Deflate(_)
Deflate(b) ==
    IF b = <<>> THEN <<>>
    ELSE LET n == RunLen(b, Head(b))
         IN <<n, Head(b)>> \o Deflate(SubSeq(b, n + 1, Len(b)))

\* gzip.compress(data)
Compress(b) == <<GZMAGIC>> \o Deflate(b) \o <<EOS, Crc(b)>>

Rep(n, x) == [i \in 1..n |-> x]

RECURSIVE Inflate(_)
\* the deflate stream at the head of s: st is "ok" (out, and rest after the
\* end-of-stream code), "eof" (s ended first) or "zlib" (an invalid code)
Inflate(s) ==
    IF s = <<>> THEN [st |-> "eof", out |-> <<>>, rest |-> <<>>]
    ELSE IF Head(s) = EOS THEN [st |-> "ok", out |-> <<>>, rest |-> Tail(s)]
    ELSE IF Head(s) > MaxRun THEN [st |-> "zlib", out |-> <<>>, rest |-> <<>>]
    ELSE IF Len(s) < 2 THEN [st |-> "eof", out |-> <<>>, rest |-> <<>>]
    ELSE LET r == Inflate(SubSeq(s, 3, Len(s)))
         IN IF r.st = "ok"
            THEN [st |-> "ok", out |-> Rep(s[1], s[2]) \o r.out, rest |-> r.rest]
            ELSE r

RECURSIVE LStripZeros(_)
LStripZeros(b) == IF b # <<>> /\ Head(b) = RAW THEN LStripZeros(Tail(b)) ELSE b

GzOk(b)   == [exc |-> "-", out |-> b]
GzErr(e)  == [exc |-> e, out |-> <<>>]

RECURSIVE Decompress(_)
\* gzip.decompress(data): the bytes, or the exception it raises
Decompress(data) ==
    IF data = <<>> THEN GzOk(<<>>)
    ELSE IF Head(data) # GZMAGIC THEN GzErr("BadGzipFile")
    ELSE LET r == Inflate(Tail(data))
         IN IF r.st = "zlib" THEN GzErr("zlib.error")
            ELSE IF r.st = "eof" \/ r.rest = <<>> THEN GzErr("EOFError")
            ELSE IF Head(r.rest) # Crc(r.out) THEN GzErr("BadGzipFile")
            ELSE LET more == Decompress(LStripZeros(Tail(r.rest)))
                 IN IF more.exc = "-" THEN GzOk(r.out \o more.out) ELSE more

(***************************************************************************)
(* core/protocol.py                                                        *)
(***************************************************************************)
\* encode_payload(data, compress)
encode_payload(d, compress) ==
    IF compress THEN <<GZIP>> \o Compress(Dumps(d))
    ELSE <<RAW>> \o Dumps(d)

\* the outcome of a decoder: a document, the failure value, or an exception
ResDoc(d)   == [kind |-> "doc", doc |-> d, exc |-> "-"]
ResNone     == [kind |-> "none", doc |-> NoDoc, exc |-> "-"]
ResRaise(e) == [kind |-> "raise", doc |-> NoDoc, exc |-> e]
ResPending  == [kind |-> "pending", doc |-> NoDoc, exc |-> "-"]

\* json.loads(json_data.decode('utf-8')): a document or the exception
ParseText(b) ==
    IF ~Utf8Ok(b) THEN ResRaise("UnicodeDecodeError")
    ELSE IF Loads(b) = NoDoc THEN ResRaise("JSONDecodeError")
    ELSE ResDoc(Loads(b))

\* the exceptions decode_payload's outer handler catches
Caught == {"JSONDecodeError", "BadGzipFile", "OSError", "UnicodeDecodeError"}
\* the exceptions the legacy branch's inner handler catches
LegacyCaught == {"BadGzipFile", "OSError"}

\* DecodeBody with the RAW branch parsing the whole datagram, tag included
DecodeBodyTagKept(data) ==
    LET magic == data[1]
        gz == IF magic = GZIP THEN Decompress(Tail(data))
              ELSE IF magic = RAW THEN GzOk(data)
              ELSE LET whole == Decompress(data)
                   IN IF whole.exc \in LegacyCaught THEN GzOk(data) ELSE whole
    IN IF gz.exc # "-" THEN ResRaise(gz.exc) ELSE ParseText(gz.out)

\* the body of decode_payload's try block
DecodeBody(data) ==
    LET magic == data[1]
        payload_data == Tail(data)
        gz == IF magic = GZIP THEN Decompress(payload_data)
              ELSE IF magic = RAW THEN GzOk(payload_data)
              ELSE LET whole == Decompress(data)
                   IN IF whole.exc \in LegacyCaught THEN GzOk(data) ELSE whole
    IN IF gz.exc # "-" THEN ResRaise(gz.exc) ELSE ParseText(gz.out)

\* decode_payload without the length test of line 56: the empty buffer
\* reaches data[0], whose IndexError the handler of line 77 does not catch
decode_payload_unguarded(data) ==
    IF Len(data) = 0 THEN ResRaise("IndexError")
    ELSE LET r == DecodeBody(data)
         IN IF r.kind = "raise" /\ r.exc \in Caught THEN ResNone ELSE r

\* decode_payload(data)
decode_payload(data) ==
    IF Len(data) < 2 THEN ResNone
    ELSE LET r == DecodeBody(data)
         IN IF r.kind = "raise" /\ r.exc \in Caught THEN ResNone ELSE r

(***************************************************************************)
(* sender_pc.py: the framing in _sender_loop                               *)
(***************************************************************************)
\* a sender that compresses whatever the sizes
SenderFrameAlwaysGzip(d) == <<GZIP>> \o Compress(Dumps(d))

\* lines 359-370: the smaller of the two frames, the raw one on a tie
SenderFrame(d) ==
    LET data == Dumps(d)
        compressed == Compress(data)
    IN IF Len(compressed) < Len(data) THEN <<GZIP>> \o compressed
       ELSE <<RAW>> \o data

(***************************************************************************)
(* receiver_notebook.py / web/server.py: the inline decoding of a datagram *)
(* up to json.loads; an exception leaves the try block (the caller's       *)
(* handler catches it).                                                    *)
(***************************************************************************)
ReceiverDecode(data) ==
    LET gz == IF Len(data) = 0 THEN GzOk(data)
              ELSE IF data[1] = GZIP THEN Decompress(Tail(data))
              ELSE IF data[1] = RAW THEN GzOk(Tail(data))
              ELSE LET whole == Decompress(data)
                   IN IF whole.exc # "-" THEN GzOk(data) ELSE whole
    IN IF gz.exc # "-" THEN ResRaise(gz.exc) ELSE ParseText(gz.out)

(***************************************************************************)
(* Codec state machine: one datagram is made, possibly damaged, decoded.   *)
(***************************************************************************)
Encodings == {"core_gz", "core_raw", "sender", "legacy_gz", "legacy_raw"}

CodecAtRest ==
    /\ c_stage = "start"
    /\ c_doc = NoDoc
    /\ c_how = "-"
    /\ c_wire = <<>>
    /\ c_by = "-"
    /\ c_result = ResPending

EncodeCore(d, compress) ==
    /\ c_stage = "start"
    /\ c_stage' = "wire"
    /\ c_doc' = d
    /\ c_how' = IF compress THEN "core_gz" ELSE "core_raw"
    /\ c_wire' = encode_payload(d, compress)
    /\ UNCHANGED <<c_by, c_result>>
    /\ UNCHANGED notCodec

SenderSend(d) ==
    /\ c_stage = "start"
    /\ c_stage' = "wire"
    /\ c_doc' = d
    /\ c_how' = "sender"
    /\ c_wire' = SenderFrame(d)
    /\ UNCHANGED <<c_by, c_result>>
    /\ UNCHANGED notCodec

\* a sender that predates the tag: the document, compressed or raw, untagged
LegacySend(d, compress) ==
    /\ c_stage = "start"
    /\ c_stage' = "wire"
    /\ c_doc' = d
    /\ c_how' = IF compress THEN "legacy_gz" ELSE "legacy_raw"
    /\ c_wire' = IF compress THEN Compress(Dumps(d)) ELSE Dumps(d)
    /\ UNCHANGED <<c_by, c_result>>
    /\ UNCHANGED notCodec

\* any datagram at all arrives
Inject(buf) ==
    /\ c_stage = "start"
    /\ c_stage' = "wire"
    /\ c_how' = "arbitrary"
    /\ c_wire' = buf
    /\ UNCHANGED <<c_doc, c_by, c_result>>
    /\ UNCHANGED notCodec

\* the datagram is cut short
Truncate(n) ==
    /\ c_stage = "wire"
    /\ c_how \in Encodings
    /\ Len(c_doc.cats) <= MaxCorruptLen
    /\ n < Len(c_wire)
    /\ c_wire' = SubSeq(c_wire, 1, n)
    /\ c_how' = "truncated"
    /\ UNCHANGED <<c_stage, c_doc, c_by, c_result>>
    /\ UNCHANGED notCodec

\* one byte of the datagram is replaced
Corrupt(i, b) ==
    /\ c_stage = "wire"
    /\ c_how \in Encodings
    /\ Len(c_doc.cats) <= MaxCorruptLen
    /\ i \in 1..Len(c_wire)
    /\ c_wire[i] # b
    /\ c_wire' = [c_wire EXCEPT ![i] = b]
    /\ c_how' = "corrupted"
    /\ UNCHANGED <<c_stage, c_doc, c_by, c_result>>
    /\ UNCHANGED notCodec

DecodeCore ==
    /\ c_stage = "wire"
    /\ c_stage' = "decoded"
    /\ c_by' = "core"
    /\ c_result' = decode_payload(c_wire)
    /\ UNCHANGED <<c_doc, c_how, c_wire>>
    /\ UNCHANGED notCodec

DecodeReceiver ==
    /\ c_stage = "wire"
    /\ c_stage' = "decoded"
    /\ c_by' = "receiver"
    /\ c_result' = ReceiverDecode(c_wire)
    /\ UNCHANGED <<c_doc, c_how, c_wire>>
    /\ UNCHANGED notCodec

\* (the stage is tested before the inputs are enumerated)
MakeDatagram ==
    /\ c_stage = "start"
    /\ \/ \E d \in Docs, compress \in BOOLEAN : EncodeCore(d, compress)
       \/ \E d \in Docs : SenderSend(d)
       \/ \E d \in Docs, compress \in BOOLEAN : LegacySend(d, compress)
       \/ \E buf \in ShortBufs : Inject(buf)

DamageDatagram ==
    /\ c_stage = "wire"
    /\ c_how \in Encodings
    /\ \/ \E n \in 0..(Len(c_wire) - 1) : Truncate(n)
       \/ \E i \in 1..Len(c_wire), b \in Byte : Corrupt(i, b)

NextCodec ==
    \/ MakeDatagram
    \/ DamageDatagram
    \/ DecodeCore
    \/ DecodeReceiver

(***************************************************************************)
(* core/alerts.py                                                          *)
(***************************************************************************)
\* Bounds of the model
MaxTime    == 5   \* the clock stops here
MaxCalls   == 2   \* send_alert calls in one run
MaxUpdates == 1   \* update_config calls in one run
MaxClears  == 1   \* clear_cooldowns calls in one run

Threads  == {1, 2}                \* threads calling into the AlertManager
Keys     == {"cpu_temp", "gpu_temp"}   \* metric keys
Channels == {"telegram", "discord", "ntfy"}
Levels   == {"info", "warning", "critical"}
Outcomes == {"ok", "non2xx", "exception", "timeout"}
\* cooldown_seconds values tried (the default is 300; the unit here is one tick)
Cooldowns == {2}
NoEntry  == -1

\* AlertConfig: channels holds the channels whose credentials are present
Configs == [enabled : BOOLEAN, channels : SUBSET Channels,
            cooldown_seconds : Cooldowns, min_level : {"warning", "critical"}]

telegram_enabled(cfg) == "telegram" \in cfg.channels
discord_enabled(cfg)  == "discord" \in cfg.channels
ntfy_enabled(cfg)     == "ntfy" \in cfg.channels

\* the master switch alone
any_enabled_switch_only(cfg) == cfg.enabled

\* lines 57-59
any_enabled(cfg) ==
    cfg.enabled /\ (telegram_enabled(cfg) \/ discord_enabled(cfg) \/ ntfy_enabled(cfg))

\* levels that all weigh the same
_level_value_flat(level) == 2

\* lines 309-316
_level_value(level) ==
    CASE level = "info" -> 1
      [] level = "warning" -> 2
      [] level = "critical" -> 3
      [] OTHER -> 0

\* self.last_alerts.get(metric_key, 0)
GetLast(last_alerts, k) == IF last_alerts[k] = NoEntry THEN 0 ELSE last_alerts[k]

\* the cooldown test with <= for <
CooldownBlocksInclusive(now, last_time, cfg) == now - last_time <= cfg.cooldown_seconds

\* if now - last_time < self.config.cooldown_seconds: return False
CooldownBlocks(now, last_time, cfg) == now - last_time < cfg.cooldown_seconds

\* a lock that never makes a thread wait
LockFreeAlways(lock) == TRUE

\* threading.Lock: acquire proceeds only when no thread holds it
LockFree(lock) == lock = 0

Idle == [pc |-> "idle", key |-> "-", level |-> "-", now |-> 0, last_time |-> 0,
         ret |-> "-", why |-> "-", prev |-> NoEntry, cd |-> 0]

\* one _send_all thread: per channel "no" (not reached), "skipped", "inflight",
\* "true"/"false" (the value the channel's send returned) or "raised"
\* changed: the configuration was replaced while the thread was alive (history)
NewDispatch == [stat |-> [c \in Channels |-> "no"], raised |-> FALSE, changed |-> FALSE]

\* test_connection is not running; results: per channel "no" (not reached),
\* "skipped" (no entry), "inflight", "true" or "false" (the entry)
NoTest == [pc |-> "idle", res |-> [c \in Channels |-> "no"],
           met |-> [c \in Channels |-> "-"]]

AlertAtRest(cfgs) ==
    /\ p_test = NoTest
    /\ p_count = 0
    /\ a_config \in cfgs
    /\ a_last_alerts = [k \in Keys |-> NoEntry]
    /\ a_lock = 0
    /\ a_clock = 1
    /\ a_th = [t \in Threads |-> Idle]
    /\ a_disp = <<>>
    /\ a_granted = [k \in Keys |-> NoEntry]
    /\ a_clears = 0
    /\ a_calls = 0
    /\ a_updates = 0

\* AlertConfig(): the defaults
DefaultConfig == [enabled |-> FALSE, channels |-> {}, cooldown_seconds |-> 2,
                  min_level |-> "warning"]

\* time passes
Tick ==
    /\ a_clock < MaxTime
    /\ a_clock' = a_clock + 1
    /\ UNCHANGED <<a_config, a_last_alerts, a_lock, a_th, a_disp, a_granted, a_clears, a_calls, a_updates>>
    /\ UNCHANGED notAlert

\* send_alert, line 110: if not self.config.any_enabled: return False
SA_Call(t, k, level) ==
    /\ a_th[t].pc = "idle"
    /\ a_calls < MaxCalls
    /\ a_calls' = a_calls + 1
    /\ a_th' = [a_th EXCEPT ![t] =
                  IF ~any_enabled(a_config)
                  THEN [Idle EXCEPT !.pc = "ret", !.key = k, !.level = level,
                                    !.ret = "false", !.why = "disabled"]
                  ELSE [Idle EXCEPT !.pc = "sa_level", !.key = k, !.level = level]]
    /\ UNCHANGED <<a_config, a_last_alerts, a_lock, a_clock, a_disp, a_granted, a_clears, a_updates>>
    /\ UNCHANGED notAlert

\* send_alert, lines 113-115: the minimum level
SA_Level(t) ==
    /\ a_th[t].pc = "sa_level"
    /\ a_th' = [a_th EXCEPT ![t] =
                  IF _level_value(a_th[t].level) < _level_value(a_config.min_level)
                  THEN [@ EXCEPT !.pc = "ret", !.ret = "false", !.why = "level"]
                  ELSE [@ EXCEPT !.pc = "sa_lock", !.level = "-"]]
    /\ UNCHANGED <<a_config, a_last_alerts, a_lock, a_clock, a_disp, a_granted, a_clears, a_calls, a_updates>>
    /\ UNCHANGED notAlert

\* send_alert, line 118: with self._lock
SA_Acquire(t) ==
    /\ a_th[t].pc = "sa_lock"
    /\ LockFree(a_lock)
    /\ a_lock' = t
    /\ a_th' = [a_th EXCEPT ![t].pc = "sa_read"]
    /\ UNCHANGED <<a_config, a_last_alerts, a_clock, a_disp, a_granted, a_clears, a_calls, a_updates>>
    /\ UNCHANGED notAlert

\* send_alert, lines 119-120: now and last_time are read
SA_Read(t) ==
    /\ a_th[t].pc = "sa_read"
    /\ a_th' = [a_th EXCEPT ![t].pc = "sa_check",
                            ![t].now = a_clock,
                            ![t].last_time = GetLast(a_last_alerts, a_th[t].key)]
    /\ UNCHANGED <<a_config, a_last_alerts, a_lock, a_clock, a_disp, a_granted, a_clears, a_calls, a_updates>>
    /\ UNCHANGED notAlert

\* a rejected call that stamps the key all the same
AfterRejectedStamped(last_alerts, key, now) == [last_alerts EXCEPT ![key] = now]

\* lines 122-123: `return False` comes before the write of line 125
AfterRejected(last_alerts, key, now) == last_alerts

\* send_alert, lines 122-125: the cooldown test, the write, the release
SA_Check(t) ==
    /\ a_th[t].pc = "sa_check"
    /\ LET me == a_th[t]
           seen == [me EXCEPT !.prev = a_granted[me.key],
                              !.cd = a_config.cooldown_seconds]
       IN IF CooldownBlocks(me.now, me.last_time, a_config)
          THEN /\ a_th' = [a_th EXCEPT ![t] =
                             [seen EXCEPT !.pc = "ret", !.ret = "false", !.why = "cooldown"]]
               /\ a_last_alerts' = AfterRejected(a_last_alerts, me.key, me.now)
               /\ UNCHANGED a_granted
          ELSE /\ a_last_alerts' = [a_last_alerts EXCEPT ![me.key] = me.now]
               /\ a_granted' = [a_granted EXCEPT ![me.key] = me.now]
               /\ a_th' = [a_th EXCEPT ![t] = [seen EXCEPT !.pc = "sa_spawn"]]
    /\ a_lock' = IF a_lock = t THEN 0 ELSE a_lock
    /\ UNCHANGED <<a_config, a_clock, a_disp, a_clears, a_calls, a_updates>>
    /\ UNCHANGED notAlert

\* send_alert, lines 127-143: the message is composed, the thread started
SA_Spawn(t) ==
    /\ a_th[t].pc = "sa_spawn"
    /\ a_disp' = Append(a_disp, NewDispatch)
    /\ a_th' = [a_th EXCEPT ![t].pc = "ret", ![t].ret = "true", ![t].why = "sent"]
    /\ UNCHANGED <<a_config, a_last_alerts, a_lock, a_clock, a_granted, a_clears, a_calls, a_updates>>
    /\ UNCHANGED notAlert

\* a caller that joins the threads it started
CallerJoins(disp) == disp # <<>>

\* lines 136-143: thread.start() and return True; the daemon thread is never
\* joined, so the caller waits for no dispatch
CallerWaits(disp) == FALSE

\* the caller has the result
SA_Return(t) ==
    /\ a_th[t].pc = "ret"
    /\ ~CallerWaits(a_disp)
    /\ a_th' = [a_th EXCEPT ![t] = Idle]
    /\ UNCHANGED <<a_config, a_last_alerts, a_lock, a_clock, a_disp, a_granted, a_clears, a_calls, a_updates>>
    /\ UNCHANGED notAlert

\* clear_cooldowns is called: the thread goes for the lock
CC_Call(t) ==
    /\ a_th[t].pc = "idle"
    /\ a_clears < MaxClears
    /\ a_clears' = a_clears + 1
    /\ a_th' = [a_th EXCEPT ![t].pc = "cc_lock"]
    /\ UNCHANGED <<a_config, a_last_alerts, a_lock, a_clock, a_disp, a_granted, a_calls, a_updates>>
    /\ UNCHANGED notAlert

\* clear_cooldowns, line 320: with self._lock
CC_Acquire(t) ==
    /\ a_th[t].pc = "cc_lock"
    /\ LockFree(a_lock)
    /\ a_lock' = t
    /\ a_th' = [a_th EXCEPT ![t].pc = "cc_clear"]
    /\ UNCHANGED <<a_config, a_last_alerts, a_clock, a_disp, a_granted, a_clears, a_calls, a_updates>>
    /\ UNCHANGED notAlert

\* clear_cooldowns, line 321: self.last_alerts.clear(), and the release
CC_Clear(t) ==
    /\ a_th[t].pc = "cc_clear"
    /\ a_last_alerts' = [k \in Keys |-> NoEntry]
    /\ a_granted' = [k \in Keys |-> NoEntry]
    /\ a_lock' = IF a_lock = t THEN 0 ELSE a_lock
    /\ a_th' = [a_th EXCEPT ![t] = Idle]
    /\ UNCHANGED <<a_config, a_clock, a_disp, a_clears, a_calls, a_updates>>
    /\ UNCHANGED notAlert

\* update_config(config): self.config = config
UpdateConfig(cfg) ==
    /\ a_updates < MaxUpdates
    /\ cfg # a_config
    /\ a_config' = cfg
    /\ a_updates' = a_updates + 1
    /\ a_disp' = [i \in 1..Len(a_disp) |-> [a_disp[i] EXCEPT !.changed = TRUE]]
    /\ UNCHANGED <<a_last_alerts, a_lock, a_clock, a_th, a_granted, a_clears, a_calls>>
    /\ UNCHANGED notAlert

(***************************************************************************)
(* _send_all, in its own thread: telegram, discord, ntfy in turn           *)
(***************************************************************************)
ChannelOrder == <<"telegram", "discord", "ntfy">>

\* _send_all goes on to the next channel while a send is still outstanding
AtStatementAlways(d) == TRUE

\* _send_telegram / _send_discord / _send_ntfy are plain calls: _send_all is
\* at a statement of its own only when no call is outstanding
AtStatement(d) == \A c \in Channels : d.stat[c] # "inflight"

\* a send in which urlopen's exception (URLError, timeout) escapes
SendResultUncaught(outcome) ==
    IF outcome = "ok" THEN "true"
    ELSE IF outcome = "non2xx" THEN "false"
    ELSE "raised"

\* lines 176-264: try: ... return response.status == 200
\*                except Exception: return False
SendResult(outcome) == IF outcome = "ok" THEN "true" ELSE "false"

\* the first channel not yet reached by dispatch d
NextChannel(d) ==
    LET left == {i \in 1..Len(ChannelOrder) : d.stat[ChannelOrder[i]] = "no"}
    IN IF left = {} THEN "-"
       ELSE ChannelOrder[CHOOSE i \in left : \A j \in left : i <= j]

\* if self.config.<channel>_enabled: self._send_<channel>(...) is entered
D_Start(i) ==
    /\ i \in 1..Len(a_disp)
    /\ LET d == a_disp[i]
           c == NextChannel(d)
       IN /\ ~d.raised
          /\ AtStatement(d)
          /\ c # "-"
          /\ c \in a_config.channels
          /\ a_disp' = [a_disp EXCEPT ![i].stat[c] = "inflight"]
    /\ UNCHANGED <<a_config, a_last_alerts, a_lock, a_clock, a_th, a_granted, a_clears, a_calls, a_updates>>
    /\ UNCHANGED notAlert

\* if self.config.<channel>_enabled: false, the channel is passed over
D_Skip(i) ==
    /\ i \in 1..Len(a_disp)
    /\ LET d == a_disp[i]
           c == NextChannel(d)
       IN /\ ~d.raised
          /\ AtStatement(d)
          /\ c # "-"
          /\ c \notin a_config.channels
          /\ a_disp' = [a_disp EXCEPT ![i].stat[c] = "skipped"]
    /\ UNCHANGED <<a_config, a_last_alerts, a_lock, a_clock, a_th, a_granted, a_clears, a_calls, a_updates>>
    /\ UNCHANGED notAlert

\* a dispatch that forgets the cooldowns when a send fails
AfterSendForget(last_alerts, result) ==
    IF result = "false" THEN [k \in Keys |-> NoEntry] ELSE last_alerts

\* lines 167-174: the value a send returns is dropped; _send_all has no
\* access to the metric key and does not touch last_alerts
AfterSend(last_alerts, result) == last_alerts

\* the request of channel c ends with some outcome
D_Complete(i, c, outcome) ==
    /\ i \in 1..Len(a_disp)
    /\ a_disp[i].stat[c] = "inflight"
    /\ LET r == SendResult(outcome)
       IN /\ a_disp' = [a_disp EXCEPT ![i].stat[c] = r,
                                      ![i].raised = (r = "raised")]
          /\ a_last_alerts' = AfterSend(a_last_alerts, r)
    /\ UNCHANGED <<a_config, a_lock, a_clock, a_th, a_granted, a_clears, a_calls, a_updates>>
    /\ UNCHANGED notAlert

DispatchDone(d) == \A c \in Channels : d.stat[c] \in {"skipped", "true", "false"}

\* _send_all returns and its thread ends
D_Exit(i) ==
    /\ i \in 1..Len(a_disp)
    /\ DispatchDone(a_disp[i])
    /\ a_disp' = SubSeq(a_disp, 1, i - 1) \o SubSeq(a_disp, i + 1, Len(a_disp))
    /\ UNCHANGED <<a_config, a_last_alerts, a_lock, a_clock, a_th, a_granted, a_clears, a_calls, a_updates>>
    /\ UNCHANGED notAlert

(***************************************************************************)
(* Credentials, and test_connection                                        *)
(***************************************************************************)
MaxProbes == 1

\* the credential fields of AlertConfig, each empty ("") or filled in
Creds == [telegram_bot_token : {"", "t"}, telegram_chat_id : {"", "c"},
          discord_webhook_url : {"", "d"}, ntfy_topic : {"", "n"},
          generic_webhook_url : {"", "g"}]

\* lines 45-55: the three properties, each bool(...) of its credentials
EnabledChannels(cr) ==
    {c \in Channels :
        \/ c = "telegram" /\ cr.telegram_bot_token # "" /\ cr.telegram_chat_id # ""
        \/ c = "discord" /\ cr.discord_webhook_url # ""
        \/ c = "ntfy" /\ cr.ntfy_topic # ""}

\* AlertConfig(enabled=True, <credentials>)
ConfigOf(cr, cd) == [enabled |-> TRUE, channels |-> EnabledChannels(cr),
                     cooldown_seconds |-> cd, min_level |-> "warning", creds |-> cr]

\* a probe whose exception escapes
ProbeResultUncaught(outcome) ==
    IF outcome = "ok" THEN "true"
    ELSE IF outcome = "non2xx" THEN "false"
    ELSE "raised"

\* lines 266-298: try: ... return response.status == 200 / except: return False
ProbeResult(outcome) == IF outcome = "ok" THEN "true" ELSE "false"

\* a probe that erases the cooldowns
AfterProbeClear(last_alerts) == [k \in Keys |-> NoEntry]

\* lines 145-163, 266-298: no statement of test_connection or of a probe
\* names last_alerts or the lock
AfterProbe(last_alerts) == last_alerts

\* the first channel test_connection has not reached
NextProbe(p) ==
    LET left == {i \in 1..Len(ChannelOrder) : p.res[ChannelOrder[i]] = "no"}
    IN IF left = {} THEN "-"
       ELSE ChannelOrder[CHOOSE i \in left : \A j \in left : i <= j]

ProbeAtStatement(p) == \A c \in Channels : p.res[c] \notin {"inflight", "raised"}

\* test_connection is called: results = {}
T_Call ==
    /\ p_test.pc = "idle"
    /\ p_count < MaxProbes
    /\ p_count' = p_count + 1
    /\ p_test' = [NoTest EXCEPT !.pc = "run"]
    /\ UNCHANGED alertVars
    /\ UNCHANGED notProbe

\* if self.config.<channel>_enabled: the probe is entered
T_Start ==
    /\ p_test.pc = "run"
    /\ ProbeAtStatement(p_test)
    /\ NextProbe(p_test) \in a_config.channels
    /\ p_test' = [p_test EXCEPT !.res[NextProbe(p_test)] = "inflight"]
    /\ UNCHANGED <<p_count, alertVars>>
    /\ UNCHANGED notProbe

\* if self.config.<channel>_enabled: false, no entry for the channel
T_Skip ==
    /\ p_test.pc = "run"
    /\ ProbeAtStatement(p_test)
    /\ NextProbe(p_test) \in Channels \ a_config.channels
    /\ p_test' = [p_test EXCEPT !.res[NextProbe(p_test)] = "skipped"]
    /\ UNCHANGED <<p_count, alertVars>>
    /\ UNCHANGED notProbe

\* the probe's request ends with some outcome: results[c] = ...
T_Complete(c, outcome) ==
    /\ p_test.pc = "run"
    /\ p_test.res[c] = "inflight"
    /\ p_test' = [p_test EXCEPT !.res[c] = ProbeResult(outcome), !.met[c] = outcome]
    /\ a_last_alerts' = AfterProbe(a_last_alerts)
    /\ UNCHANGED <<p_count, a_config, a_lock, a_clock, a_th, a_disp, a_granted, a_clears,
                   a_calls, a_updates>>
    /\ UNCHANGED notProbe

\* return results
T_Return ==
    /\ p_test.pc = "run"
    /\ ProbeAtStatement(p_test)
    /\ NextProbe(p_test) = "-"
    /\ p_test' = [p_test EXCEPT !.pc = "ret"]
    /\ UNCHANGED <<p_count, alertVars>>
    /\ UNCHANGED notProbe

\* the caller has the map
T_Done ==
    /\ p_test.pc = "ret"
    /\ p_test' = NoTest
    /\ UNCHANGED <<p_count, alertVars>>
    /\ UNCHANGED notProbe

\* probes interleaved with one thread raising alerts for one key
NextProbeSide ==
    \/ Tick
    \/ \E level \in Levels : SA_Call(1, "cpu_temp", level)
    \/ SA_Level(1)
    \/ SA_Acquire(1)
    \/ SA_Read(1)
    \/ SA_Check(1)
    \/ SA_Spawn(1)
    \/ SA_Return(1)
    \/ T_Call
    \/ T_Start
    \/ T_Skip
    \/ \E c \in Channels, o \in Outcomes : T_Complete(c, o)
    \/ T_Return
    \/ T_Done

\* what the credentials lead to: one alert, its dispatch, and a probe
NextCreds ==
    \/ \E level \in {"warning"} : SA_Call(1, "cpu_temp", level)
    \/ SA_Level(1)
    \/ SA_Acquire(1)
    \/ SA_Read(1)
    \/ SA_Check(1)
    \/ SA_Spawn(1)
    \/ SA_Return(1)
    \/ D_Start(1)
    \/ D_Skip(1)
    \/ \E c \in Channels, o \in {"ok", "exception"} : D_Complete(1, c, o)
    \/ D_Exit(1)
    \/ T_Call
    \/ T_Start
    \/ T_Skip
    \/ \E c \in Channels, o \in {"ok", "exception"} : T_Complete(c, o)
    \/ T_Return
    \/ T_Done

\* the callers' side.  The dispatch threads it starts are not stepped here:
\* they read the configuration and write nothing a caller reads.
NextAlert ==
    \/ Tick
    \/ \E t \in Threads, k \in Keys, level \in Levels : SA_Call(t, k, level)
    \/ \E t \in Threads : SA_Level(t)
    \/ \E t \in Threads : SA_Acquire(t)
    \/ \E t \in Threads : SA_Read(t)
    \/ \E t \in Threads : SA_Check(t)
    \/ \E t \in Threads : SA_Spawn(t)
    \/ \E t \in Threads : SA_Return(t)
    \/ \E t \in Threads : CC_Call(t)
    \/ \E t \in Threads : CC_Acquire(t)
    \/ \E t \in Threads : CC_Clear(t)

\* the dispatch side: one thread raising alerts for one key, the dispatch
\* threads it starts, and reconfiguration while they run.  The dispatch
\* threads share no state with each other, so they are stepped oldest first.
NextDispatch ==
    \/ Tick
    \/ \E level \in Levels : SA_Call(1, "cpu_temp", level)
    \/ SA_Level(1)
    \/ SA_Acquire(1)
    \/ SA_Read(1)
    \/ SA_Check(1)
    \/ SA_Spawn(1)
    \/ SA_Return(1)
    \/ \E cs \in SUBSET Channels : UpdateConfig([a_config EXCEPT !.channels = cs])
    \/ D_Start(1)
    \/ D_Skip(1)
    \/ \E c \in Channels, o \in Outcomes : D_Complete(1, c, o)
    \/ D_Exit(1)

(***************************************************************************)
(* receiver_notebook.py: TelemetryDashboard._receiver_loop                 *)
(* web/server.py: TelemetryWebServer._start_udp_receiver.receiver_loop     *)
(***************************************************************************)
HISTORY_SIZE == 60
CONNECTION_TIMEOUT == 5
WEB_TIMEOUT == 5    \* get_telemetry: time.time() - self.last_update < 5
MaxElapsed   == 7   \* the receivers' clock runs this far past its start
MaxLivePackets == 2 \* datagrams received in a run that watches the connected flag

\* time.time() is seconds since 1970: when a receiver starts it is far above
\* any timeout
StartTime == CONNECTION_TIMEOUT + 1
MaxPackets   == 3   \* datagrams received in one run
MaxRecvLen   == 1   \* longest arbitrary datagram a receiver is handed
MaxRecvCats  == 2   \* most categories in a document a receiver is handed

Sources == {"10.0.0.2", "10.0.0.3"}

\* the history series in the order the loop appends to them, each with the
\* position of the category it reads (cpu, gpu, ram, network)
Series == <<"cpu_usage", "cpu_temp", "gpu_load", "gpu_temp", "ram",
            "net_down", "net_up", "ping">>
SeriesCat == <<1, 1, 2, 2, 3, 4, 4, 4>>

EmptyDoc == [top |-> "object", cats |-> <<>>]

\* payload.get(<category>, {}): "absent", or the kind of value present
CatKind(doc, i) == IF i > Len(doc.cats) THEN "absent"
                   ELSE IF doc.cats[i] = CATOBJ THEN "object" ELSE "number"

\* payload.get(<category>, {}).get(<field>, 0): the value, once it is known
\* not to raise
CatValue(doc, i) == IF CatKind(doc, i) = "object" THEN 1 ELSE 0

\* the first series whose append raises AttributeError (Len(Series)+1: none)
FirstBad(doc) ==
    LET bad == {i \in 1..Len(Series) : CatKind(doc, SeriesCat[i]) = "number"}
    IN IF bad = {} THEN Len(Series) + 1 ELSE CHOOSE i \in bad : \A j \in bad : i <= j

\* deque([0] * HISTORY_SIZE, maxlen=HISTORY_SIZE).append(v).  A series is kept
\* as the values appended to it, oldest first; the zeros it was created with,
\* which fill it up to HISTORY_SIZE on the left, are left out.
Push(h, v) == IF Len(h) < HISTORY_SIZE THEN Append(h, v) ELSE Append(Tail(h), v)

NbInit == [current_data |-> EmptyDoc, last_data_time |-> 0,
           history |-> [i \in 1..Len(Series) |-> <<>>]]

\* a handler that stamps the time of a datagram it drops
NbDroppedStamped(st, now) == [st EXCEPT !.last_data_time = now]

\* lines 469-472: except socket.timeout: continue / except Exception: print
NbDropped(st, now) == st

\* lines 452-467: the debug read of cpu.usage, then under data_lock the
\* snapshot, the time and the appends, up to the first one that raises
NbApply(st, doc, now) ==
    IF doc.top # "object" \/ CatKind(doc, 1) = "number" THEN NbDropped(st, now)
    ELSE [current_data |-> doc,
          last_data_time |-> now,
          history |-> [i \in 1..Len(Series) |->
                         IF i < FirstBad(doc)
                         THEN Push(st.history[i], CatValue(doc, SeriesCat[i]))
                         ELSE st.history[i]]]

\* a loop without the source filter
FilteredNever(sender_ip, src) == FALSE

\* lines 430-432: in manual mode a datagram from another address is ignored
Filtered(sender_ip, src) == sender_ip # "" /\ src # sender_ip

\* one pass of the inner loop over a datagram received
NbHandle(st, sender_ip, buf, src, now) ==
    IF Filtered(sender_ip, src) THEN st
    ELSE LET r == ReceiverDecode(buf)
         IN IF r.kind = "raise" THEN NbDropped(st, now) ELSE NbApply(st, r.doc, now)

\* TelemetryWebServer() after run(): _running is set before the loop starts
WebInit == [current_data |-> EmptyDoc, last_update |-> 0, running |-> TRUE]

\* web/server.py lines 427-449
WebHandle(st, buf, now) ==
    LET r == ReceiverDecode(buf)
    IN IF r.kind = "raise" THEN st
       ELSE [st EXCEPT !.current_data = r.doc, !.last_update = now]

\* the datagrams a receiver is handed: every short one, the frames of small
\* documents, and two frames cut short or with one byte made invalid
RecvDocs == ObjectDocs(MaxRecvCats) \cup {ScalarDoc}
Frames(d) == {SenderFrame(d), encode_payload(d, TRUE), Dumps(d)}
Damaged(f) == {SubSeq(f, 1, n) : n \in 0..(Len(f) - 1)}
              \cup {[f EXCEPT ![i] = BADBYTE] : i \in 1..Len(f)}
OneCatDoc == [top |-> "object", cats |-> <<CATOBJ>>]
RecvInputs ==
    SeqsUpTo(Byte, MaxRecvLen)
    \cup UNION {Frames(d) : d \in RecvDocs}
    \cup Damaged(encode_payload(OneCatDoc, TRUE))
    \cup Damaged(encode_payload(OneCatDoc, FALSE))
    \cup {Compress(Dumps(OneCatDoc))}

\* what became of a datagram: ignored by the source filter, failed to decode
\* (decompression, text decoding or parsing raised), or decoded to a document
Fate(sender_ip, buf, src) ==
    IF Filtered(sender_ip, src) THEN "ignored"
    ELSE IF ReceiverDecode(buf).kind = "raise" THEN "undecoded" ELSE "decoded"

RecvAtRest(procs, ips) ==
    /\ r_proc \in procs
    /\ r_clock = StartTime
    /\ r_count = 0
    /\ r_dgram = [to |-> "-", src |-> "-", good |-> FALSE, fate |-> "-"]
    /\ r_seen = 0
    /\ r_flag = [asked |-> FALSE, connected |-> FALSE, expected |-> FALSE]
    /\ nb_sender_ip \in ips
    /\ nb = NbInit
    /\ nb_decoded = EmptyDoc
    /\ web = WebInit
    /\ web_decoded = EmptyDoc

\* the dashboard's loop takes a datagram from its socket; time has moved on
\* while it waited in recvfrom
NbReceive(buf, src) ==
    /\ r_proc = "notebook"
    /\ r_count < MaxPackets
    /\ r_count' = r_count + 1
    /\ r_clock' = r_clock + 1
    /\ r_dgram' = [to |-> "nb", src |-> src, good |-> ReceiverDecode(buf).kind = "doc",
                  fate |-> Fate(nb_sender_ip, buf, src)]
    /\ nb' = NbHandle(nb, nb_sender_ip, buf, src, r_clock')
    /\ nb_decoded' = IF ~Filtered(nb_sender_ip, src) /\ ReceiverDecode(buf).kind = "doc"
                     THEN ReceiverDecode(buf).doc ELSE nb_decoded
    /\ r_seen' = IF Fate(nb_sender_ip, buf, src) = "decoded" THEN r_clock' ELSE r_seen
    /\ UNCHANGED <<r_proc, nb_sender_ip, web, web_decoded, r_flag>>
    /\ UNCHANGED notRecv

\* the web server's loop takes a datagram from its socket
WebReceive(buf) ==
    /\ r_proc = "web"
    /\ web.running
    /\ r_count < MaxPackets
    /\ r_count' = r_count + 1
    /\ r_clock' = r_clock + 1
    /\ r_dgram' = [to |-> "web", src |-> "", good |-> ReceiverDecode(buf).kind = "doc",
                  fate |-> Fate("", buf, "")]
    /\ web' = WebHandle(web, buf, r_clock')
    /\ web_decoded' = IF ReceiverDecode(buf).kind = "doc"
                      THEN ReceiverDecode(buf).doc ELSE web_decoded
    /\ r_seen' = IF Fate("", buf, "") = "decoded" THEN r_clock' ELSE r_seen
    /\ UNCHANGED <<r_proc, nb_sender_ip, nb, nb_decoded, r_flag>>
    /\ UNCHANGED notRecv

\* TelemetryWebServer.stop()
WebStop ==
    /\ r_proc = "web"
    /\ web.running
    /\ web' = [web EXCEPT !.running = FALSE]
    /\ UNCHANGED <<r_proc, r_clock, r_count, r_dgram, nb_sender_ip, nb, nb_decoded, web_decoded,
                   r_seen, r_flag>>
    /\ UNCHANGED notRecv

NextRecv ==
    \/ \E buf \in RecvInputs, src \in Sources : NbReceive(buf, src)
    \/ \E buf \in RecvInputs : WebReceive(buf)
    \/ WebStop

(***************************************************************************)
(* The connected flag: TelemetryDashboard._update_ui, get_telemetry        *)
(***************************************************************************)
\* `if data`: the snapshot copied under the lock counts only when it is not
\* empty
Truthy(doc) == ~(doc.top = "object" /\ doc.cats = <<>>)

\* _update_ui, lines 567-582: data and (now - last_time) < CONNECTION_TIMEOUT
NbConnected(st, now) ==
    Truthy(st.current_data) /\ now - st.last_data_time < CONNECTION_TIMEOUT

\* get_telemetry, line 79
WebConnected(st, now) == now - st.last_update < WEB_TIMEOUT

\* a packet was decoded, and fewer than CONNECTION_TIMEOUT seconds ago
Alive(seen, now) == seen # 0 /\ now - seen < CONNECTION_TIMEOUT

\* time passes
RecvTick ==
    /\ r_clock < StartTime + MaxElapsed
    /\ r_clock' = r_clock + 1
    /\ UNCHANGED <<r_proc, r_count, r_dgram, nb_sender_ip, nb, nb_decoded, web, web_decoded,
                   r_seen, r_flag>>
    /\ UNCHANGED notRecv

\* the dashboard's 500 ms timer runs _update_ui
NbUpdateUI ==
    /\ r_proc = "notebook"
    /\ r_flag' = [asked |-> TRUE, connected |-> NbConnected(nb, r_clock),
                  expected |-> Alive(r_seen, r_clock)]
    /\ UNCHANGED <<r_proc, r_clock, r_count, r_dgram, nb_sender_ip, nb, nb_decoded, web,
                   web_decoded, r_seen>>
    /\ UNCHANGED notRecv

\* a client asks GET /api/telemetry
WebGetTelemetry ==
    /\ r_proc = "web"
    /\ r_flag' = [asked |-> TRUE, connected |-> WebConnected(web, r_clock),
                  expected |-> Alive(r_seen, r_clock)]
    /\ UNCHANGED <<r_proc, r_clock, r_count, r_dgram, nb_sender_ip, nb, nb_decoded, web,
                   web_decoded, r_seen>>
    /\ UNCHANGED notRecv

NextLive ==
    \/ RecvTick
    \/ r_count < MaxLivePackets /\ \E buf \in RecvInputs, src \in Sources : NbReceive(buf, src)
    \/ r_count < MaxLivePackets /\ \E buf \in RecvInputs : WebReceive(buf)
    \/ NbUpdateUI
    \/ WebGetTelemetry

(***************************************************************************)
(* The dashboard's receive thread and the restart signal                   *)
(* (receiver_notebook.py, _receiver_loop 408-479, _save_all_settings).     *)
(***************************************************************************)
MaxSaves     == 2
MaxBindFails == 1

\* line 199: CONFIG.get("porta", 5005)
DefaultPort == 5005
\* the ports a save may configure
Ports == {DefaultPort, DefaultPort + 1}

\* __init__, lines 199-200, and the thread started on _receiver_loop
RestartAtRest(ports) ==
    /\ porta \in ports
    /\ restart_receiver = FALSE
    /\ rx = [pc |-> "socket", bound |-> 0, fails |-> 0]
    /\ ui = [pc |-> "idle", saves |-> 0]
    /\ rs_owed = 0

\* lines 412-415: the socket is created and bound on self.porta
RX_Bind ==
    /\ rx.pc = "socket"
    /\ rx' = [rx EXCEPT !.pc = "bound", !.bound = porta]
    /\ rs_owed' = IF rs_owed = porta THEN 0 ELSE rs_owed
    /\ UNCHANGED <<porta, restart_receiver, ui>>
    /\ UNCHANGED notRestart

\* lines 477-479: bind raises; the error is printed, the thread sleeps and
\* starts over at line 410
RX_BindFail ==
    /\ rx.pc = "socket"
    /\ rx.fails < MaxBindFails
    /\ rx' = [rx EXCEPT !.fails = @ + 1]
    /\ UNCHANGED <<porta, restart_receiver, ui, rs_owed>>
    /\ UNCHANGED notRestart

\* line 420: self.restart_receiver = False
RX_Reset ==
    /\ rx.pc = "bound"
    /\ restart_receiver' = FALSE
    /\ rx' = [rx EXCEPT !.pc = "loop"]
    /\ UNCHANGED <<porta, ui, rs_owed>>
    /\ UNCHANGED notRestart

\* line 422: while not self.restart_receiver
RX_Test ==
    /\ rx.pc = "loop"
    /\ rx' = [rx EXCEPT !.pc = IF restart_receiver THEN "close" ELSE "recv"]
    /\ UNCHANGED <<porta, restart_receiver, ui, rs_owed>>
    /\ UNCHANGED notRestart

\* lines 423-472: one pass of the inner loop: a datagram is handled, or
\* recvfrom times out after a second, or the handling raises; every path
\* goes back to the test of line 422
RX_Recv ==
    /\ rx.pc = "recv"
    /\ rx' = [rx EXCEPT !.pc = "loop"]
    /\ UNCHANGED <<porta, restart_receiver, ui, rs_owed>>
    /\ UNCHANGED notRestart

\* line 474: sock.close(), and back to line 410
RX_Close ==
    /\ rx.pc = "close"
    /\ rx' = [rx EXCEPT !.pc = "socket", !.bound = 0]
    /\ UNCHANGED <<porta, restart_receiver, ui, rs_owed>>
    /\ UNCHANGED notRestart

\* _save_all_settings, lines 1394-1398: the file is saved, self.porta = port
UI_Apply(p) ==
    /\ ui.pc = "idle"
    /\ ui.saves < MaxSaves
    /\ porta' = p
    /\ ui' = [pc |-> "applied", saves |-> ui.saves + 1]
    /\ UNCHANGED <<restart_receiver, rx, rs_owed>>
    /\ UNCHANGED notRestart

\* _save_all_settings, line 1404: self.restart_receiver = True
UI_Signal ==
    /\ ui.pc = "applied"
    /\ restart_receiver' = TRUE
    /\ rs_owed' = porta
    /\ ui' = [ui EXCEPT !.pc = "idle"]
    /\ UNCHANGED <<porta, rx>>
    /\ UNCHANGED notRestart

\* a step of the receive thread other than a failed bind
RX_Step == RX_Bind \/ RX_Reset \/ RX_Test \/ RX_Recv \/ RX_Close

NextRestart ==
    \/ RX_Bind
    \/ RX_BindFail
    \/ RX_Reset
    \/ RX_Test
    \/ RX_Recv
    \/ RX_Close
    \/ \E p \in Ports : UI_Apply(p)
    \/ UI_Signal

(***************************************************************************)
(* The sender's collection loop (sender_pc.py, _sender_loop 336-380,       *)
(* _toggle_pause, _quit).                                                  *)
(***************************************************************************)
MaxToggles == 3

\* line 80: "intervalo": 0.5, in tenths of a second
DefaultInterval == 5
\* the intervals a configuration file may hold
Intervals == {DefaultInterval, DefaultInterval * 2}

\* a pass of the loop before line 349
NewPass(s) == [s EXCEPT !.tested = "-", !.sent = FALSE, !.err = FALSE]

\* __init__, lines 126-127; line 116; the thread started on _sender_loop
SenderAtRest(intervals) ==
    /\ running = TRUE
    /\ paused = FALSE
    /\ INTERVALO \in intervals
    /\ snd = [pc |-> "while", tested |-> "-", sent |-> FALSE, err |-> FALSE,
              slept |-> 0, skipped |-> FALSE, failed |-> FALSE, closes |-> 0,
              late |-> FALSE]
    /\ s_toggles = 0

\* a loop that a pause ends
LoopRunsUnpaused(run, pau) == run /\ ~pau

\* line 348: while self.running
LoopRuns(run, pau) == run

SL_While ==
    /\ snd.pc = "while"
    /\ snd' = [NewPass(snd) EXCEPT !.pc = IF LoopRuns(running, paused) THEN "if" ELSE "done"]
    /\ UNCHANGED <<running, paused, INTERVALO, s_toggles>>
    /\ UNCHANGED notSender

\* line 349: if not self.paused
SL_If ==
    /\ snd.pc = "if"
    /\ snd' = IF ~paused
              THEN [snd EXCEPT !.pc = "collect", !.tested = "go"]
              ELSE [snd EXCEPT !.pc = "sleep", !.tested = "skip", !.skipped = TRUE]
    /\ UNCHANGED <<running, paused, INTERVALO, s_toggles>>
    /\ UNCHANGED notSender

\* an exception that leaves the loop
AfterRaiseUncaught(s) == [s EXCEPT !.pc = "done", !.err = TRUE, !.failed = TRUE]

\* lines 372-373: except Exception as e: print(...), then line 375
AfterRaise(s) == [s EXCEPT !.pc = "sleep", !.err = TRUE, !.failed = TRUE]

\* lines 350-361: the data is collected, the payload built, serialized and
\* compressed; raised: the except clause of lines 372-373 is taken
SL_Collect(raised) ==
    /\ snd.pc = "collect"
    /\ snd' = IF raised
              THEN AfterRaise(snd)
              ELSE [snd EXCEPT !.pc = "send"]
    /\ UNCHANGED <<running, paused, INTERVALO, s_toggles>>
    /\ UNCHANGED notSender

\* lines 365-370: one sendto; raised: lines 372-373
SL_Send(raised) ==
    /\ snd.pc = "send"
    /\ snd' = IF raised
              THEN AfterRaise(snd)
              ELSE [snd EXCEPT !.pc = "sleep", !.sent = TRUE, !.late = snd.closes > 0]
    /\ UNCHANGED <<running, paused, INTERVALO, s_toggles>>
    /\ UNCHANGED notSender

\* line 375: time.sleep(INTERVALO)
SL_Sleep ==
    /\ snd.pc = "sleep"
    /\ snd' = [snd EXCEPT !.pc = "while", !.slept = INTERVALO]
    /\ UNCHANGED <<running, paused, INTERVALO, s_toggles>>
    /\ UNCHANGED notSender

\* lines 377-380: the monitor and the socket are closed, the thread ends
SL_Cleanup ==
    /\ snd.pc = "done"
    /\ snd' = [snd EXCEPT !.pc = "closed", !.closes = snd.closes + 1]
    /\ UNCHANGED <<running, paused, INTERVALO, s_toggles>>
    /\ UNCHANGED notSender

\* _toggle_pause, line 204: self.paused = not self.paused
TogglePause ==
    /\ s_toggles < MaxToggles
    /\ s_toggles' = s_toggles + 1
    /\ paused' = ~paused
    /\ UNCHANGED <<running, INTERVALO, snd>>
    /\ UNCHANGED notSender

\* _quit, line 223: self.running = False
Quit ==
    /\ running
    /\ running' = FALSE
    /\ UNCHANGED <<paused, INTERVALO, snd, s_toggles>>
    /\ UNCHANGED notSender

\* a step of the loop's thread
SL_Step ==
    \/ SL_While
    \/ SL_If
    \/ \E raised \in BOOLEAN : SL_Collect(raised)
    \/ \E raised \in BOOLEAN : SL_Send(raised)
    \/ SL_Sleep

NextSender ==
    \/ SL_While
    \/ SL_If
    \/ \E raised \in BOOLEAN : SL_Collect(raised)
    \/ \E raised \in BOOLEAN : SL_Send(raised)
    \/ SL_Sleep
    \/ SL_Cleanup
    \/ TogglePause
    \/ Quit

\* run, lines 385-413: the loop runs in a daemon thread that nothing joins.
\* Once running is cleared icon.run() returns (line 407; _quit has called
\* icon.stop()) or the console loop of 411-412 ends, run and main return and
\* the interpreter exits, ending the loop's thread wherever it stands.
MainExit ==
    /\ ~running
    /\ snd.pc \notin {"closed", "killed"}
    /\ snd' = [snd EXCEPT !.pc = "killed"]
    /\ UNCHANGED <<running, paused, INTERVALO, s_toggles>>
    /\ UNCHANGED notSender

NextProcess ==
    \/ SL_While
    \/ SL_If
    \/ \E raised \in BOOLEAN : SL_Collect(raised)
    \/ \E raised \in BOOLEAN : SL_Send(raised)
    \/ SL_Sleep
    \/ SL_Cleanup
    \/ TogglePause
    \/ Quit
    \/ MainExit

(***************************************************************************)
(* The history store (core/history.py): one SQLite table, a write lock,    *)
(* record, get_history, get_stats, cleanup_old, vacuum.  Time is counted   *)
(* in hours.                                                               *)
(***************************************************************************)
MaxWrites    == 2
MaxHistTicks == 2

\* '-{days} days' against '-{hours} hours'
HOURS_PER_DAY == 24

HThreads == {1, 2}

\* lines 150-153, 191-194
valid_metrics == {"cpu_usage", "cpu_temp", "gpu_load", "gpu_temp",
                  "ram_percent", "ping_ms", "net_down_kbps", "net_up_kbps"}

\* the names asked for: a column and a name that is no column
MetricNames == {"cpu_usage", "bogus"}

\* a field of the snapshot: absent, a value SQLite cannot bind (a list, a
\* dict), or a number
Absent     == -1
Unbindable == -2
Readings   == {1, 3}

\* the snapshots handed to record: something that is no dict, a dict without
\* "cpu", a dict whose "cpu" is no dict, and dicts with "cpu" a dict
HistDocs ==
    {[top |-> "other", cpu |-> "absent", usage |-> Absent, temp |-> Absent],
     [top |-> "dict", cpu |-> "absent", usage |-> Absent, temp |-> Absent],
     [top |-> "dict", cpu |-> "other", usage |-> Absent, temp |-> Absent]}
    \cup {[top |-> "dict", cpu |-> "dict", usage |-> u, temp |-> Absent] :
             u \in Readings \cup {Absent, Unbindable}}

\* the hours and days asked for; NoDays: cleanup_old() without argument
HoursAsked == {1, HOURS_PER_DAY + 1}
NoDays     == -1
DaysAsked  == {NoDays, 0, 1}
Limits     == {0, 1, 2}
Retentions == {1}

\* lines 105-108, 118-125: <category>.get(<field>, 0) for each column
RowOf(doc) ==
    [m \in valid_metrics |->
        IF m = "cpu_usage" /\ doc.usage # Absent THEN doc.usage
        ELSE IF m = "cpu_temp" /\ doc.temp # Absent THEN doc.temp
        ELSE 0]

\* lines 105-108 raise: data is no dict
ArgsRaise(doc) == doc.top # "dict"

\* lines 118-126 raise: "cpu" is no dict, or a value cannot be bound
InsertRaises(doc) == doc.cpu = "other" \/ doc.usage = Unbindable

\* WHERE timestamp > datetime('now', '-{hours} hours')
InWindow(ts, now, hours) == ts > now - hours

\* WHERE timestamp < datetime('now', '-{days} days')
Expired(ts, now, days) == ts < now - days * HOURS_PER_DAY

\* line 251: days = days or self.retention_days
DaysOr(days, retention) == IF days = NoDays \/ days = 0 THEN retention ELSE days

RECURSIVE OrderByTsDesc(_, _)
\* ORDER BY timestamp DESC over the rows at positions idx; rows of one
\* timestamp come latest-inserted first (the index is walked backwards)
OrderByTsDesc(rows, idx) ==
    IF idx = {} THEN <<>>
    ELSE LET top == CHOOSE i \in idx :
                      \A j \in idx : \/ rows[j].ts < rows[i].ts
                                     \/ rows[j].ts = rows[i].ts /\ j <= i
         IN <<rows[top]>> \o OrderByTsDesc(rows, idx \ {top})

\* a query that forgets the LIMIT
TakeAll(q, limit) == q

\* LIMIT ?
Take(q, limit) == SubSeq(q, 1, IF limit < Len(q) THEN limit ELSE Len(q))

\* lines 160-171: the query of get_history and the list built from it
SelectHistory(rows, metric, now, hours, limit) ==
    LET idx == {i \in 1..Len(rows) : InWindow(rows[i].ts, now, hours)}
        q   == Take(OrderByTsDesc(rows, idx), limit)
    IN [i \in 1..Len(q) |-> <<q[i].ts, q[i].col[metric]>>]

RECURSIVE SumOf(_, _, _)
SumOf(rows, idx, metric) ==
    IF idx = {} THEN 0
    ELSE LET i == CHOOSE j \in idx : TRUE
         IN rows[i].col[metric] + SumOf(rows, idx \ {i}, metric)

ZeroStats == [kind |-> "stats", min |-> 0, max |-> 0, sum |-> 0, count |-> 0]

\* line 197: return {}
EmptyDict == [kind |-> "empty", min |-> 0, max |-> 0, sum |-> 0, count |-> 0]

\* lines 196-197: what get_stats returns for a name outside the whitelist
InvalidStats == EmptyDict

\* lines 201-218: MIN, MAX, AVG, COUNT(*) over the window, each `or 0`; the
\* average is kept as the sum, to be divided by count
SelectStats(rows, metric, now, hours) ==
    LET idx  == {i \in 1..Len(rows) : InWindow(rows[i].ts, now, hours)}
        vals == {rows[i].col[metric] : i \in idx}
    IN IF idx = {} THEN ZeroStats
       ELSE [kind |-> "stats",
             min |-> CHOOSE v \in vals : \A w \in vals : v <= w,
             max |-> CHOOSE v \in vals : \A w \in vals : v >= w,
             sum |-> SumOf(rows, idx, metric),
             count |-> Cardinality(idx)]

\* lines 256-261: the rows DELETE leaves
Kept(rows, now, days) ==
    LET idx == {i \in 1..Len(rows) : ~Expired(rows[i].ts, now, days)}
        f[k \in 0..Len(rows)] ==
            IF k = 0 THEN <<>>
            ELSE IF k \in idx THEN Append(f[k - 1], rows[k]) ELSE f[k - 1]
    IN f[Len(rows)]

\* a failed transaction that leaves its row behind
KeptAfterFailure(rows, pending) == Append(rows, pending)

\* lines 111, 63-66: the connection is closed without commit
RolledBack(rows, pending) == rows

\* lines 129-131: except Exception: ... return False
RecordFailed == "false"

NoRow == [ts |-> -1, col |-> [m \in valid_metrics |-> 0]]

\* a row as an earlier run of the program left it
OldRow(ts, v) == [ts |-> ts, col |-> [m \in valid_metrics |-> IF m = "cpu_usage" THEN v ELSE 0]]

\* the table the program finds when it starts: none yet (CREATE TABLE IF NOT
\* EXISTS makes it), or the rows of earlier runs
Stores == {<<>>, <<OldRow(0 - HOURS_PER_DAY - 1, 1), OldRow(0, 3)>>}
NoRet == [kind |-> "none", b |-> "-", n |-> 0, rows |-> <<>>, stats |-> ZeroStats]
RetBool(b)   == [NoRet EXCEPT !.kind = "bool", !.b = b]
RetInt(n)    == [NoRet EXCEPT !.kind = "int", !.n = n]
RetRows(q)   == [NoRet EXCEPT !.kind = "rows", !.rows = q]
RetStats(st) == [NoRet EXCEPT !.kind = "stats", !.stats = st]

\* a thread outside the store
HIdle == [pc |-> "idle", op |-> "-", doc |-> CHOOSE d \in HistDocs : d.top = "other",
          metric |-> "-", hours |-> 0, limit |-> 0, days |-> 0, asked |-> 0,
          pending |-> NoRow, ret |-> NoRet, failed |-> FALSE]

\* __init__, lines 48-56: the lock, the table
HistAtRest(retentions, stores) ==
    /\ h_rows \in stores
    /\ h_lock = 0
    /\ h_clock = 0
    /\ h_retention \in retentions
    /\ h_th = [t \in HThreads |-> HIdle]
    /\ h_writes = 0
    /\ h_ticks = 0

\* an hour or a day goes by
H_Tick(d) ==
    /\ h_ticks < MaxHistTicks
    /\ h_ticks' = h_ticks + 1
    /\ h_clock' = h_clock + d
    /\ UNCHANGED <<h_rows, h_lock, h_retention, h_th, h_writes>>
    /\ UNCHANGED notHist

HCalled(t, op) == [HIdle EXCEPT !.op = op]

\* record, lines 104-108: the categories are read from data
HR_Call(t, doc) ==
    /\ h_th[t].pc = "idle"
    /\ h_writes < MaxWrites
    /\ h_writes' = h_writes + 1
    /\ h_th' = [h_th EXCEPT ![t] =
                  IF ArgsRaise(doc)
                  THEN [HCalled(t, "record") EXCEPT !.doc = doc, !.pc = "ret",
                                                    !.failed = TRUE,
                                                    !.ret = RetBool(RecordFailed)]
                  ELSE [HCalled(t, "record") EXCEPT !.doc = doc, !.pc = "lock"]]
    /\ UNCHANGED <<h_rows, h_lock, h_clock, h_retention, h_ticks>>
    /\ UNCHANGED notHist

\* cleanup_old, line 251
HC_Call(t, days) ==
    /\ h_th[t].pc = "idle"
    /\ h_writes < MaxWrites
    /\ h_writes' = h_writes + 1
    /\ h_th' = [h_th EXCEPT ![t] =
                  [HCalled(t, "cleanup_old") EXCEPT !.asked = days,
                                                     !.days = DaysOr(days, h_retention),
                                                     !.pc = "lock"]]
    /\ UNCHANGED <<h_rows, h_lock, h_clock, h_retention, h_ticks>>
    /\ UNCHANGED notHist

\* lines 110, 254: with self._lock
H_Acquire(t) ==
    /\ h_th[t].pc = "lock"
    /\ h_lock = 0
    /\ h_lock' = t
    /\ h_th' = [h_th EXCEPT ![t].pc = IF h_th[t].op = "record" THEN "insert" ELSE "delete"]
    /\ UNCHANGED <<h_rows, h_clock, h_retention, h_writes, h_ticks>>
    /\ UNCHANGED notHist

\* record, lines 111-126: the connection is opened and the INSERT executed;
\* fail: connecting or executing raises
HR_Insert(t, fail) ==
    /\ h_th[t].pc = "insert"
    /\ IF fail \/ InsertRaises(h_th[t].doc)
       THEN /\ h_th' = [h_th EXCEPT ![t].pc = "ret", ![t].failed = TRUE,
                                    ![t].ret = RetBool(RecordFailed)]
            /\ h_lock' = 0
       ELSE /\ h_th' = [h_th EXCEPT ![t].pc = "commit",
                                    ![t].pending = [ts |-> h_clock,
                                                    col |-> RowOf(h_th[t].doc)]]
            /\ UNCHANGED h_lock
    /\ UNCHANGED <<h_rows, h_clock, h_retention, h_writes, h_ticks>>
    /\ UNCHANGED notHist

\* record, lines 127-131: conn.commit(), the connection closed, the lock
\* released; fail: the commit raises
HR_Commit(t, fail) ==
    /\ h_th[t].pc = "commit"
    /\ IF fail
       THEN /\ h_rows' = RolledBack(h_rows, h_th[t].pending)
            /\ h_th' = [h_th EXCEPT ![t].pc = "ret", ![t].failed = TRUE,
                                    ![t].ret = RetBool(RecordFailed)]
       ELSE /\ h_rows' = Append(h_rows, h_th[t].pending)
            /\ h_th' = [h_th EXCEPT ![t].pc = "ret", ![t].ret = RetBool("true")]
    /\ h_lock' = 0
    /\ UNCHANGED <<h_clock, h_retention, h_writes, h_ticks>>
    /\ UNCHANGED notHist

\* cleanup_old, lines 255-264: DELETE, commit, return cursor.rowcount; fail:
\* one of them raises and 0 is returned
HC_Delete(t, fail) ==
    /\ h_th[t].pc = "delete"
    /\ IF fail
       THEN /\ h_th' = [h_th EXCEPT ![t].pc = "ret", ![t].failed = TRUE,
                                    ![t].ret = RetInt(0)]
            /\ UNCHANGED h_rows
       ELSE /\ h_rows' = Kept(h_rows, h_clock, h_th[t].days)
            /\ h_th' = [h_th EXCEPT ![t].pc = "ret",
                          ![t].ret = RetInt(Len(h_rows)
                                            - Len(Kept(h_rows, h_clock, h_th[t].days)))]
    /\ h_lock' = 0
    /\ UNCHANGED <<h_clock, h_retention, h_writes, h_ticks>>
    /\ UNCHANGED notHist

\* vacuum, lines 291-292: a connection is opened; the lock is not taken
HV_Call(t) ==
    /\ h_th[t].pc = "idle"
    /\ h_th' = [h_th EXCEPT ![t] = [HCalled(t, "vacuum") EXCEPT !.pc = "vacuum"]]
    /\ UNCHANGED <<h_rows, h_lock, h_clock, h_retention, h_writes, h_ticks>>
    /\ UNCHANGED notHist

\* vacuum, lines 293-295: VACUUM rewrites the file with the same rows; fail:
\* it raises, which is printed
HV_Exec(t, fail) ==
    /\ h_th[t].pc = "vacuum"
    /\ h_th' = [h_th EXCEPT ![t].pc = "ret", ![t].failed = fail]
    /\ UNCHANGED <<h_rows, h_lock, h_clock, h_retention, h_writes, h_ticks>>
    /\ UNCHANGED notHist

\* get_history, lines 150-156
HG_Call(t, metric, hours, limit) ==
    /\ h_th[t].pc = "idle"
    /\ h_th' = [h_th EXCEPT ![t] =
                  LET c == [HCalled(t, "get_history") EXCEPT
                              !.metric = metric, !.hours = hours, !.limit = limit]
                  IN IF metric \notin valid_metrics
                     THEN [c EXCEPT !.pc = "ret", !.ret = RetRows(<<>>)]
                     ELSE [c EXCEPT !.pc = "query"]]
    /\ UNCHANGED <<h_rows, h_lock, h_clock, h_retention, h_writes, h_ticks>>
    /\ UNCHANGED notHist

\* get_history, lines 158-174; fail: the query raises and [] is returned
HG_Query(t, fail) ==
    /\ h_th[t].pc = "query"
    /\ h_th[t].op = "get_history"
    /\ h_th' = [h_th EXCEPT ![t] =
                  LET me == h_th[t]
                      c  == [me EXCEPT !.pc = "ret", !.failed = fail]
                  IN IF fail THEN [c EXCEPT !.ret = RetRows(<<>>)]
                     ELSE [c EXCEPT !.ret = RetRows(SelectHistory(h_rows, me.metric, h_clock,
                                                                  me.hours, me.limit))]]
    /\ UNCHANGED <<h_rows, h_lock, h_clock, h_retention, h_writes, h_ticks>>
    /\ UNCHANGED notHist

\* get_stats, lines 191-197
HS_Call(t, metric, hours) ==
    /\ h_th[t].pc = "idle"
    /\ h_th' = [h_th EXCEPT ![t] =
                  LET c == [HCalled(t, "get_stats") EXCEPT !.metric = metric, !.hours = hours]
                  IN IF metric \notin valid_metrics
                     THEN [c EXCEPT !.pc = "ret", !.ret = RetStats(InvalidStats)]
                     ELSE [c EXCEPT !.pc = "query"]]
    /\ UNCHANGED <<h_rows, h_lock, h_clock, h_retention, h_writes, h_ticks>>
    /\ UNCHANGED notHist

\* get_stats, lines 199-222; fail: the query raises and the zeros of line
\* 222 are returned
HS_Query(t, fail) ==
    /\ h_th[t].pc = "query"
    /\ h_th[t].op = "get_stats"
    /\ h_th' = [h_th EXCEPT ![t] =
                  LET me == h_th[t]
                      c  == [me EXCEPT !.pc = "ret", !.failed = fail]
                  IN IF fail THEN [c EXCEPT !.ret = RetStats(ZeroStats)]
                     ELSE [c EXCEPT !.ret = RetStats(SelectStats(h_rows, me.metric, h_clock,
                                                                 me.hours))]]
    /\ UNCHANGED <<h_rows, h_lock, h_clock, h_retention, h_writes, h_ticks>>
    /\ UNCHANGED notHist

\* the caller has the value
H_Return(t) ==
    /\ h_th[t].pc = "ret"
    /\ h_th' = [h_th EXCEPT ![t] = HIdle]
    /\ UNCHANGED <<h_rows, h_lock, h_clock, h_retention, h_writes, h_ticks>>
    /\ UNCHANGED notHist

\* two threads in the store at once
NextHistLock ==
    \/ \E t \in HThreads, doc \in {d \in HistDocs : d.usage = 1} : HR_Call(t, doc)
    \/ \E t \in HThreads : HC_Call(t, 1)
    \/ \E t \in HThreads : H_Acquire(t)
    \/ \E t \in HThreads, fail \in BOOLEAN : HR_Insert(t, fail)
    \/ \E t \in HThreads, fail \in BOOLEAN : HR_Commit(t, fail)
    \/ \E t \in HThreads, fail \in BOOLEAN : HC_Delete(t, fail)
    \/ \E t \in HThreads : HV_Call(t)
    \/ \E t \in HThreads, fail \in BOOLEAN : HV_Exec(t, fail)
    \/ \E t \in HThreads : HG_Call(t, "cpu_usage", 1, 1)
    \/ \E t \in HThreads : HG_Query(t, FALSE)
    \/ \E t \in HThreads : HS_Call(t, "cpu_usage", 1)
    \/ \E t \in HThreads : HS_Query(t, FALSE)
    \/ \E t \in HThreads : H_Return(t)

\* one thread using the store as the clock runs
NextHist ==
    \/ \E d \in {1, HOURS_PER_DAY} : H_Tick(d)
    \/ \E doc \in HistDocs : HR_Call(1, doc)
    \/ \E days \in DaysAsked : HC_Call(1, days)
    \/ H_Acquire(1)
    \/ \E fail \in BOOLEAN : HR_Insert(1, fail)
    \/ \E fail \in BOOLEAN : HR_Commit(1, fail)
    \/ \E fail \in BOOLEAN : HC_Delete(1, fail)
    \/ HV_Call(1)
    \/ \E fail \in BOOLEAN : HV_Exec(1, fail)
    \/ \E m \in MetricNames, h \in HoursAsked, l \in Limits : HG_Call(1, m, h, l)
    \/ \E fail \in BOOLEAN : HG_Query(1, fail)
    \/ \E m \in MetricNames, h \in HoursAsked : HS_Call(1, m, h)
    \/ \E fail \in BOOLEAN : HS_Query(1, fail)
    \/ H_Return(1)

(***************************************************************************)
(* hardware_monitor.py: fetch_data reduces the sensors of the enumerated   *)
(* devices to one dictionary.                                              *)
(***************************************************************************)
\* Bounds of the model
MaxReadings    == 3   \* most sensors the devices of a machine have, taken together
MaxDiskSensors == 3   \* most sensors of the storage device examined alone

\* A sensor as fetch_data meets it: the device it belongs to (hw: Hardware.Name,
\* hw_type: HardwareType), its SensorType, its Name, its Value.  m_hw lists the
\* sensors in the order the two loops of lines 113 and 123 visit them: device
\* after device, and within a device sensor after sensor (for a Motherboard
\* the sensors of its sub-hardware, lines 181-183).
NaN == -1   \* a Value that is None, NaN or infinite
Reading(hw, hw_type, s_type, name, val) ==
    [hw |-> hw, hw_type |-> hw_type, s_type |-> s_type, name |-> name, val |-> val]

\* the texts the code looks for in a sensor's name, for each name used here
Substrings(name) ==
    CASE name = "CPU Total"       -> {"Total"}
      [] name = "CPU Core #1"     -> {"Core"}
      [] name = "GPU Core"        -> {"Core"}
      [] name = "GPU Memory"      -> {"Memory"}
      [] name = "D3D 3D"          -> {"D3D"}
      [] name = "Memory"          -> {"Memory"}
      [] name = "Virtual Memory"  -> {"Virtual", "Memory"}
      [] name = "Memory Used"     -> {"Memory", "Used"}
      [] name = "Memory Available" -> {"Memory", "Available"}
      [] name = "Available Spare" -> {"Available Spare", "Available"}
      [] name = "Percentage Used" -> {"Percentage Used", "Used"}
      [] name = "Used Space"      -> {"Used Space", "Used"}
      [] name = "Read Activity"   -> {"Read Activity", "Read"}
      [] name = "Write Activity"  -> {"Write Activity", "Write"}
      [] name = "Total Activity"  -> {"Total Activity", "Total"}
      [] name = "Read Rate"       -> {"Read"}
      [] name = "Write Rate"      -> {"Write"}
      [] name = "Data Read"       -> {"Data Read", "Read"}
      [] name = "Data Written"    -> {"Data Written"}
      [] OTHER                    -> {}

\* `sub in name`
In(sub, name) == sub \in Substrings(name)

\* `"Gpu" in hw_type`
IsGpu(hw_type) == hw_type \in {"GpuNvidia", "GpuAmd", "GpuIntel"}

\* _safe_value
_safe_value(val) == IF val = NaN THEN 0 ELSE val

Max(a, b) == IF a >= b THEN a ELSE b

\* lines 80-107: the dictionary before any sensor is read
EmptyData ==
    [cpu |-> [temp |-> 0, voltage |-> 0, load |-> 0, power |-> 0, clock |-> 0],
     gpu |-> [temp |-> 0, load |-> 0, voltage |-> 0, clock_core |-> 0, clock_mem |-> 0,
              fan |-> 0, mem_used |-> 0],
     mobo |-> [temp |-> 0],
     ram |-> [load |-> 0, used_gb |-> 0, available_gb |-> 0],
     storage |-> <<>>,
     fans |-> <<>>]

\* lines 128-145: one sensor of a Cpu
CpuSensor(cpu, s_type, name, val) ==
    CASE s_type = "Temperature" ->
             IF val > 0 THEN [cpu EXCEPT !.temp = Max(@, val)] ELSE cpu
      [] s_type = "Voltage" ->
             IF val > 0 /\ val < 2 THEN [cpu EXCEPT !.voltage = Max(@, val)] ELSE cpu
      [] s_type = "Load" ->
             IF In("Total", name) /\ val > 0 THEN [cpu EXCEPT !.load = val] ELSE cpu
      [] s_type = "Power" ->
             IF val > 0 THEN [cpu EXCEPT !.power = Max(@, val)] ELSE cpu
      [] s_type = "Clock" ->
             IF val > 0 THEN [cpu EXCEPT !.clock = Max(@, val)] ELSE cpu
      [] OTHER -> cpu

\* lines 154-176: one sensor of a Gpu
GpuSensor(gpu, s_type, name, val) ==
    CASE s_type = "Temperature" ->
             IF In("Core", name) /\ val > 0 THEN [gpu EXCEPT !.temp = val] ELSE gpu
      [] s_type = "Load" ->
             IF In("Core", name) /\ ~In("D3D", name) /\ val > 0
             THEN [gpu EXCEPT !.load = val] ELSE gpu
      [] s_type = "Voltage" ->
             IF In("Core", name) /\ val > 0 THEN [gpu EXCEPT !.voltage = val] ELSE gpu
      [] s_type = "Clock" ->
             IF In("Core", name) /\ val > 0 THEN [gpu EXCEPT !.clock_core = val]
             ELSE IF In("Memory", name) /\ val > 0 THEN [gpu EXCEPT !.clock_mem = val]
             ELSE gpu
      [] s_type = "Fan" ->
             IF val > 0 THEN [gpu EXCEPT !.fan = val] ELSE gpu
      [] s_type = "SmallData" ->
             IF In("Dedicated", name) /\ val > 0 THEN [gpu EXCEPT !.mem_used = val] ELSE gpu
      [] OTHER -> gpu

\* MoboSensor with every turning fan listed
MoboSensorAnyRpm(data, s_type, name, val) ==
    CASE s_type = "Temperature" ->
             IF val > 0 /\ val < 150
             THEN [data EXCEPT !.mobo.temp = Max(@, val)] ELSE data
      [] s_type = "Fan" ->
             IF val > 0
             THEN [data EXCEPT !.fans = Append(@, [name |-> name, rpm |-> val])] ELSE data
      [] OTHER -> data

\* lines 188-193: one sensor of a Motherboard's sub-hardware
MoboSensor(data, s_type, name, val) ==
    CASE s_type = "Temperature" ->
             IF val > 0 /\ val < 150
             THEN [data EXCEPT !.mobo.temp = Max(@, val)] ELSE data
      [] s_type = "Fan" ->
             IF val > 100
             THEN [data EXCEPT !.fans = Append(@, [name |-> name, rpm |-> val])] ELSE data
      [] OTHER -> data

\* lines 202-209: one sensor of a Memory
RamSensor(ram, s_type, name, val) ==
    CASE s_type = "Load" ->
             IF In("Memory", name) /\ ~In("Virtual", name)
             THEN [ram EXCEPT !.load = val] ELSE ram
      [] s_type = "Data" ->
             IF In("Used", name) /\ ~In("Virtual", name)
             THEN [ram EXCEPT !.used_gb = val]
             ELSE IF In("Available", name) /\ ~In("Virtual", name)
             THEN [ram EXCEPT !.available_gb = val]
             ELSE ram
      [] OTHER -> ram

\* lines 213-227: what a Storage device starts from
NewDisk(name) ==
    [disk_info |-> [name |-> name, temp |-> 0, health |-> 100, used_space |-> 0,
                    read_activity |-> 0, write_activity |-> 0, total_activity |-> 0,
                    read_rate |-> 0, write_rate |-> 0, data_read_gb |-> 0,
                    data_written_gb |-> 0],
     has_health |-> FALSE,
     has_any_data |-> FALSE]

\* lines 234-271: one sensor of a Storage device
DiskSensor(d, s_type, name, val) ==
    CASE s_type = "Temperature" /\ val > 0 ->
             [d EXCEPT !.disk_info.temp = Max(@, val), !.has_any_data = TRUE]
      [] s_type = "Level" ->
             IF In("Available Spare", name) /\ val > 0
             THEN [d EXCEPT !.disk_info.health = val, !.has_health = TRUE,
                            !.has_any_data = TRUE]
             ELSE IF In("Percentage Used", name) /\ ~d.has_health
             THEN [d EXCEPT !.disk_info.health = Max(0, 100 - val), !.has_health = TRUE,
                            !.has_any_data = TRUE]
             ELSE d
      [] s_type = "Load" ->
             IF In("Used Space", name)
             THEN [d EXCEPT !.disk_info.used_space = val, !.has_any_data = TRUE]
             ELSE IF In("Read Activity", name) THEN [d EXCEPT !.disk_info.read_activity = val]
             ELSE IF In("Write Activity", name) THEN [d EXCEPT !.disk_info.write_activity = val]
             ELSE IF In("Total Activity", name) THEN [d EXCEPT !.disk_info.total_activity = val]
             ELSE d
      [] s_type = "Throughput" ->
             IF In("Read", name) /\ val > 0 THEN [d EXCEPT !.disk_info.read_rate = val]
             ELSE IF In("Write", name) /\ val > 0 THEN [d EXCEPT !.disk_info.write_rate = val]
             ELSE d
      [] s_type = "Data" ->
             IF In("Data Read", name) /\ val > 0
             THEN [d EXCEPT !.disk_info.data_read_gb = val, !.has_any_data = TRUE]
             ELSE IF In("Data Written", name) /\ val > 0
             THEN [d EXCEPT !.disk_info.data_written_gb = val, !.has_any_data = TRUE]
             ELSE d
      [] OTHER -> d

\* the body of a `for sensor in ...` loop: acc holds the dictionary and, for a
\* Storage device, the locals disk_info, has_health, has_any_data
SensorStep(acc, r) ==
    LET val == _safe_value(r.val)
    IN IF r.hw_type = "Cpu"
       THEN [acc EXCEPT !.data.cpu = CpuSensor(@, r.s_type, r.name, val)]
       ELSE IF IsGpu(r.hw_type)
       THEN [acc EXCEPT !.data.gpu = GpuSensor(@, r.s_type, r.name, val)]
       ELSE IF r.hw_type = "Motherboard"
       THEN [acc EXCEPT !.data = MoboSensor(@, r.s_type, r.name, val)]
       ELSE IF r.hw_type = "Memory"
       THEN [acc EXCEPT !.data.ram = RamSensor(@, r.s_type, r.name, val)]
       ELSE IF r.hw_type = "Storage"
       THEN [acc EXCEPT !.disk = DiskSensor(@, r.s_type, r.name, val)]
       ELSE acc

RECURSIVE SensorsLoop(_, _)
SensorsLoop(acc, sensors) ==
    IF sensors = <<>> THEN acc
    ELSE SensorsLoop(SensorStep(acc, Head(sensors)), Tail(sensors))

\* the sensors of the device that comes first, and the sensors of the others
SameDevice(hw, r) == r.hw = hw[1].hw
OtherDevice(hw, r) == r.hw # hw[1].hw

\* lines 113-275: device after device; a Storage device that has_any_data is
\* appended once its sensors are read
RECURSIVE HardwareLoop(_, _)
HardwareLoop(data, hw) ==
    IF hw = <<>> THEN data
    ELSE LET sensors == SelectSeq(hw, LAMBDA r : SameDevice(hw, r))
             rest == SelectSeq(hw, LAMBDA r : OtherDevice(hw, r))
             acc == SensorsLoop([data |-> data, disk |-> NewDisk(hw[1].hw)], sensors)
             after == IF hw[1].hw_type = "Storage" /\ acc.disk.has_any_data
                      THEN [acc.data EXCEPT !.storage = Append(@, acc.disk.disk_info)]
                      ELSE acc.data
         IN HardwareLoop(after, rest)

\* fetch_data() of an enabled monitor
fetch_data(hw) == HardwareLoop(EmptyData, hw)

\* the sensors of a device follow one another
Grouped(hw) ==
    \A i, j, k \in 1..Len(hw) : (i < j /\ j < k /\ hw[i].hw = hw[k].hw) => hw[j].hw = hw[i].hw

\* the sequences of up to n readings of a pool, device by device; a device
\* has one sensor of a given type and name
Enumerations(pool, n) ==
    {hw \in SeqsUpTo(pool, n) :
        /\ \A i, j \in 1..Len(hw) :
               i # j => <<hw[i].hw, hw[i].s_type, hw[i].name>> #
                        <<hw[j].hw, hw[j].s_type, hw[j].name>>
        /\ Grouped(hw)}

\* a machine: a processor, a discrete and an integrated GPU, a board with two
\* fans, memory, two disks
MachinePool ==
    {Reading("Ryzen", "Cpu", "Temperature", "Core (Tctl/Tdie)", 72),
     Reading("Ryzen", "Cpu", "Temperature", "CPU Core #1", 60),
     Reading("Ryzen", "Cpu", "Load", "CPU Total", 41),
     Reading("RTX", "GpuNvidia", "Temperature", "GPU Core", 65),
     Reading("RTX", "GpuNvidia", "Load", "GPU Core", 50),
     Reading("Radeon", "GpuAmd", "Temperature", "GPU Core", 55),
     Reading("Board", "Motherboard", "Temperature", "Temperature #1", 40),
     Reading("Board", "Motherboard", "Fan", "Fan #1", 900),
     Reading("Board", "Motherboard", "Fan", "Fan #2", 1200),
     Reading("Memory", "Memory", "Load", "Memory", 50),
     Reading("Memory", "Memory", "Data", "Memory Used", 8),
     Reading("SSD", "Storage", "Temperature", "Temperature", 45),
     Reading("HDD", "Storage", "Temperature", "Temperature", 38)}

\* one disk and the sensors it may have
DiskPool ==
    {Reading("SSD", "Storage", "Temperature", "Temperature", 45),
     Reading("SSD", "Storage", "Temperature", "Temperature 2", NaN),
     Reading("SSD", "Storage", "Level", "Available Spare", 90),
     Reading("SSD", "Storage", "Level", "Percentage Used", 10),
     Reading("SSD", "Storage", "Load", "Used Space", 0),
     Reading("SSD", "Storage", "Load", "Total Activity", 3),
     Reading("SSD", "Storage", "Throughput", "Read Rate", 5),
     Reading("SSD", "Storage", "Data", "Data Read", 7),
     Reading("SSD", "Storage", "Data", "Data Written", 0)}

\* a two-socket machine, a disk with its wear sensors at several values, and
\* the fans of a board, of a GPU and of a cooler
SensorPool ==
    {Reading("Xeon 0", "Cpu", "Load", "CPU Total", 41),
     Reading("Xeon 0", "Cpu", "Load", "CPU Total", 0),
     Reading("Xeon 0", "Cpu", "Load", "CPU Core #1", 30),
     Reading("Xeon 1", "Cpu", "Load", "CPU Total", 17),
     Reading("SSD", "Storage", "Temperature", "Temperature", 45),
     Reading("SSD", "Storage", "Level", "Available Spare", 90),
     Reading("SSD", "Storage", "Level", "Available Spare", 0),
     Reading("SSD", "Storage", "Level", "Percentage Used", 10),
     Reading("SSD", "Storage", "Level", "Percentage Used", 130),
     Reading("Board", "Motherboard", "Fan", "Fan #1", 900),
     Reading("Board", "Motherboard", "Fan", "Fan #2", 100),
     Reading("RTX", "GpuNvidia", "Fan", "GPU Fan", 1500),
     Reading("Commander", "Cooler", "Fan", "Fan #1", 1100)}

NoData == [called |-> FALSE]

MonAtRest(hardware) ==
    /\ m_hw \in hardware
    /\ m_data = NoData

\* the readings of hw in the order perm gives
Shuffled(hw, perm) == [i \in 1..Len(hw) |-> hw[perm[i]]]

\* fetch_data is called
M_Fetch ==
    /\ m_data' = fetch_data(m_hw)
    /\ UNCHANGED m_hw
    /\ UNCHANGED notMon

\* the same sensors are enumerated in another order
M_Shuffle ==
    /\ \E perm \in Permutations(1..Len(m_hw)) :
           /\ Shuffled(m_hw, perm) # m_hw
           /\ Grouped(Shuffled(m_hw, perm))
           /\ m_hw' = Shuffled(m_hw, perm)
    /\ UNCHANGED m_data
    /\ UNCHANGED notMon

NextMonitor ==
    \/ M_Fetch
    \/ M_Shuffle

(***************************************************************************)
(* receiver_notebook.py (_update_value, _update_panels, the thresholds of  *)
(* _save_all_settings) and the page of web/server.py (getClass): a value   *)
(* is coloured against a warning and a critical threshold.                 *)
(***************************************************************************)
NoThreshold == -1   \* None: the call names no threshold
Values == {0, 10, 75, 90}
\* what the settings window's entry of a threshold may hold
EntryTexts == {"0", "70", "85", "abc"}
\* the thresholds the page passes to getClass
PageThresholds == {[warn |-> 70, crit |-> 85], [warn |-> 75, crit |-> 90],
                   [warn |-> 50, crit |-> 100]}

\* config_padrao["alertas"]: cpu_temp_warning, cpu_temp_critical
DefaultAlertas == [warn |-> 70, crit |-> 85]

\* lines 1330-1333: int(entry.get()), 0 when it raises
IntOrZero(text) ==
    CASE text = "0"  -> 0
      [] text = "70" -> 70
      [] text = "85" -> 85
      [] OTHER       -> 0

\* the truth value Python gives a threshold: None and 0 are false
IsSet(threshold) == threshold # NoThreshold /\ threshold # 0

\* lines 527-533: the key of self.colors the label is given
ColourOf(value, warn_threshold, crit_threshold) ==
    IF IsSet(crit_threshold) /\ value >= crit_threshold THEN "critical"
    ELSE IF IsSet(warn_threshold) /\ value >= warn_threshold THEN "warning"
    ELSE "text"

\* the page's getClass(value, warn, crit)
getClass(value, warn, crit) ==
    IF value >= crit THEN "critical"
    ELSE IF value >= warn THEN "warning"
    ELSE ""

NoCall == [value |-> 0, warn |-> NoThreshold, crit |-> NoThreshold, out |-> "-"]

ClassAtRest(alertas) ==
    /\ k_alertas \in alertas
    /\ k_call = NoCall
    /\ k_page = NoCall

\* _save_all_settings: the thresholds typed replace those of CONFIG
K_Save(warn_text, crit_text) ==
    /\ k_alertas' = [warn |-> IntOrZero(warn_text), crit |-> IntOrZero(crit_text)]
    /\ UNCHANGED <<k_call, k_page>>
    /\ UNCHANGED notClass

\* _update_panels: a metric that has thresholds is drawn with those of CONFIG
K_Update(value) ==
    /\ k_call' = [value |-> value, warn |-> k_alertas.warn, crit |-> k_alertas.crit,
                  out |-> ColourOf(value, k_alertas.warn, k_alertas.crit)]
    /\ UNCHANGED <<k_alertas, k_page>>
    /\ UNCHANGED notClass

\* _update_panels: a metric that has no threshold (voltage, power, clock)
K_UpdatePlain(value) ==
    /\ k_call' = [value |-> value, warn |-> NoThreshold, crit |-> NoThreshold,
                  out |-> ColourOf(value, NoThreshold, NoThreshold)]
    /\ UNCHANGED <<k_alertas, k_page>>
    /\ UNCHANGED notClass

\* updateUI: the page gives an element the class of its value
K_Page(value, th) ==
    /\ k_page' = [value |-> value, warn |-> th.warn, crit |-> th.crit,
                  out |-> getClass(value, th.warn, th.crit)]
    /\ UNCHANGED <<k_alertas, k_call>>
    /\ UNCHANGED notClass

NextClass ==
    \/ \E w \in EntryTexts, c \in EntryTexts : K_Save(w, c)
    \/ \E v \in Values : K_Update(v)
    \/ \E v \in Values : K_UpdatePlain(v)
    \/ \E v \in Values, th \in PageThresholds : K_Page(v, th)

(***************************************************************************)
(* Claims on the codec                                                     *)
(***************************************************************************)
ToNone(r) == IF r.kind = "raise" THEN ResNone ELSE r

\* C3: decode_payload is total: for every datagram it returns a document or
\* the failure value, and never raises to its caller.
C3_DecodeTotal ==
    (c_stage = "decoded" /\ c_by = "core") => c_result.kind \in {"doc", "none"}

\* C4: decode_payload(encode_payload(d, compress)) = d, compressed or not.
C4_RoundTrip ==
    (c_stage = "decoded" /\ c_by = "core" /\ c_how \in {"core_gz", "core_raw"})
        => c_result = ResDoc(c_doc)

C4_Witness ==
    /\ c_stage = "decoded" /\ c_by = "core" /\ c_how = "core_gz"
    /\ Len(c_doc.cats) = 2
    /\ c_result = ResDoc(c_doc)

C8_LegacyRecovery ==
    (c_stage = "decoded" /\ Len(c_wire) >= 2 /\ c_wire[1] \notin {RAW, GZIP}) =>
        LET whole == Decompress(c_wire)
            text  == IF whole.exc = "-" THEN whole.out ELSE c_wire
        IN c_result = IF c_by = "core" THEN ToNone(ParseText(text)) ELSE ParseText(text)

\* C25: decode_payload answers every datagram shorter than two bytes, the
\* empty one and a single byte of any value, with the failure value; it
\* neither raises nor returns a document.
C25_ShortBufferFails ==
    (c_stage = "decoded" /\ c_by = "core" /\ Len(c_wire) < 2) =>
        c_result = ResNone

\* the empty datagram has gone through decode_payload
C25_Witness ==
    /\ c_stage = "decoded"
    /\ c_by = "core"
    /\ Len(c_wire) = 0

(***************************************************************************)
(* Claims on the alert engine                                              *)
(***************************************************************************)
\* C1: a send_alert call that got as far as the cooldown test, for a key that
\* has had a true-returning call since the last clear_cooldowns, returns true
\* exactly when at least cooldown_seconds lie between that call and this one.
C1_Cooldown ==
    \A t \in Threads :
        LET me == a_th[t]
        IN (me.pc = "ret" /\ me.why \in {"cooldown", "sent"} /\ me.prev # NoEntry)
           => (me.ret = "true" <=> me.now - me.prev >= me.cd)

\* a call returns true again once the cooldown of an earlier one has run out
C1_Witness ==
    \E t \in Threads :
        /\ a_th[t].pc = "ret"
        /\ a_th[t].ret = "true"
        /\ a_th[t].prev # NoEntry
        /\ a_th[t].now - a_th[t].prev >= a_th[t].cd

\* C2: the cooldown test and the write of last_alerts are one critical
\* section: a call passes the test only while it holds the lock and only
\* against the entry as it stands at that moment (absent, or at least
\* cooldown_seconds old), and last_alerts changes only in a step of the
\* thread that holds the lock, in send_alert or in clear_cooldowns.
C2_AtomicCheckAndSet ==
    [][ /\ \A t \in Threads :
             (a_th[t].pc = "sa_check" /\ a_th'[t].pc = "sa_spawn")
             => /\ a_lock = t
                /\ \/ a_last_alerts[a_th[t].key] = NoEntry
                   \/ a_th[t].now - a_last_alerts[a_th[t].key] >= a_config.cooldown_seconds
        /\ a_last_alerts' # a_last_alerts
             => /\ a_lock \in Threads
                /\ a_th[a_lock].pc \in {"sa_check", "cc_clear"}
                /\ a_th'[a_lock] # a_th[a_lock]
      ]_vars

\* two calls for one key at the same time: one returned true, the other false
C2_Witness ==
    \E t1, t2 \in Threads :
        /\ t1 # t2
        /\ a_th[t1].pc = "ret" /\ a_th[t1].ret = "true"
        /\ a_th[t2].pc = "ret" /\ a_th[t2].ret = "false" /\ a_th[t2].why = "cooldown"
        /\ a_th[t1].key = a_th[t2].key
        /\ a_th[t1].now = a_th[t2].now

\* C34: a send_alert call changes last_alerts at most at its own key and only
\* on its way to returning true; a call the cooldown rejects leaves every
\* entry as it was; and whether a call passes is decided by the entry of its
\* own key alone.
C34_OwnKeyOnly ==
    [][ /\ \A k \in Keys :
             a_last_alerts'[k] # a_last_alerts[k] =>
                 \/ \E t \in Threads : a_th[t].pc = "cc_clear" /\ a_th'[t].pc = "idle"
                 \/ \E t \in Threads : /\ a_th[t].pc = "sa_check"
                                       /\ a_th[t].key = k
                                       /\ a_th'[t].pc = "sa_spawn"
        /\ \A t \in Threads :
             /\ (a_th[t].pc = "sa_check" /\ a_th'[t].pc = "ret") =>
                    a_last_alerts' = a_last_alerts
             /\ (a_th[t].pc = "sa_check" /\ a_th'[t].pc # "sa_check") =>
                    (a_th'[t].pc = "sa_spawn" <=>
                        a_th[t].now - GetLast(a_last_alerts, a_th[t].key)
                            >= a_config.cooldown_seconds)
             /\ (a_th[t].pc = "sa_spawn" /\ a_th'[t].pc # "sa_spawn") =>
                    a_th'[t].ret = "true"
      ]_vars

\* a call rejected inside the cooldown window has returned, and the entry of
\* its key is still the time of the call that was let through
C34_Witness ==
    \E t \in Threads :
        /\ a_th[t].pc = "ret"
        /\ a_th[t].why = "cooldown"
        /\ a_th[t].prev # NoEntry
        /\ a_th[t].now > a_th[t].prev
        /\ a_last_alerts[a_th[t].key] = a_th[t].prev

\* C37: a send_alert call for a key that has no entry in last_alerts, never
\* alerted or erased by clear_cooldowns, is not rejected by the cooldown
\* test, whatever cooldown_seconds and the time are.
C37_FirstAlertPasses ==
    \A t \in Threads :
        (a_th[t].pc = "ret" /\ a_th[t].why = "cooldown") => a_th[t].prev # NoEntry

\* C12: a send_alert call made while no channel is enabled returns false at
\* once and changes neither last_alerts nor the set of dispatches, for every
\* key, level and time.
C12_NoChannelNoEffect ==
    [][ \A t \in Threads :
          (a_calls' # a_calls /\ a_th'[t] # a_th[t] /\ a_config.channels = {})
          => /\ a_th'[t].pc = "ret"
             /\ a_th'[t].ret = "false"
             /\ a_last_alerts' = a_last_alerts
             /\ a_disp' = a_disp
      ]_vars

\* the master switch is on, no channel is, and a call has returned false
C12_Witness ==
    /\ a_config.enabled
    /\ a_config.channels = {}
    /\ \E t \in Threads : a_th[t].pc = "ret" /\ a_th[t].ret = "false"
                           /\ a_th[t].why = "disabled"

\* INFO < WARNING < CRITICAL
Below(level, min_level) ==
    \/ level = "info" /\ min_level \in {"warning", "critical"}
    \/ level = "warning" /\ min_level = "critical"

\* C13: a call whose level is below the configured minimum returns false,
\* starts no dispatch and leaves the cooldown entry of its key as it was.
C13_BelowMinimum ==
    [][ \A t \in Threads :
          (a_th[t].pc = "sa_level" /\ a_th'[t] # a_th[t]
           /\ Below(a_th[t].level, a_config.min_level))
          => /\ a_th'[t].pc = "ret"
             /\ a_th'[t].ret = "false"
             /\ a_last_alerts' = a_last_alerts
             /\ a_disp' = a_disp
      ]_vars

\* a WARNING call under a CRITICAL minimum has returned false, for a key
\* whose cooldown entry is still absent
C13_Witness ==
    \E t \in Threads :
        /\ a_th[t].pc = "ret" /\ a_th[t].why = "level" /\ a_th[t].ret = "false"
        /\ a_th[t].level = "warning" /\ a_config.min_level = "critical"
        /\ a_last_alerts[a_th[t].key] = NoEntry

\* C14: send_alert never waits for a dispatch: a call that has its result can
\* return whatever the dispatch threads are doing; and the result is true
\* exactly when the call started a dispatch thread.
C14_ReturnsAtOnce ==
    /\ [](\A t \in Threads : a_th[t].pc = "ret" => ENABLED SA_Return(t))
    /\ [][ \A t \in Threads :
              (a_th[t].pc # "ret" /\ a_th'[t].pc = "ret")
              => (a_th'[t].ret = "true" <=> a_disp' = Append(a_disp, NewDispatch))
          ]_vars

\* the call has returned true and is over while the request of the first
\* channel of its dispatch is still outstanding
C14_Witness ==
    /\ a_calls = 1
    /\ a_th[1].pc = "idle"
    /\ Len(a_disp) = 1
    /\ a_disp[1].stat["telegram"] = "inflight"

\* C15: whatever the sends of a dispatch return, the cooldown entry written
\* when it was scheduled stays: a later call for the key is refused inside
\* the window and granted once cooldown_seconds have passed; and a channel
\* that has returned is not tried again by that dispatch.
C15_FailureKeepsCooldown ==
    /\ [](/\ a_last_alerts = a_granted
          /\ \A t \in Threads :
                (a_th[t].pc \in {"sa_spawn", "ret"} /\ a_th[t].prev # NoEntry)
                => (a_th[t].why # "cooldown" <=> a_th[t].now - a_th[t].prev >= a_th[t].cd))
    /\ [][ \A i \in 1..Len(a_disp) : \A c \in Channels :
              (Len(a_disp') >= Len(a_disp) /\ a_disp[i].stat[c] \in {"true", "false"})
              => a_disp'[i].stat[c] = a_disp[i].stat[c]
          ]_vars

\* every send of the first dispatch failed, and a call made after the
\* cooldown ran out has been granted
C15_Witness ==
    /\ Len(a_disp) = 2
    /\ \A c \in Channels : a_disp[1].stat[c] = "false"
    /\ a_th[1].pc = "ret" /\ a_th[1].ret = "true" /\ a_th[1].prev # NoEntry

\* C5: no send's failure leaves _send_all, and a dispatch that ran under one
\* configuration ends having attempted exactly the channels enabled in it,
\* whatever the other attempts returned.
C5_ChannelsIsolated ==
    \A i \in 1..Len(a_disp) :
        LET d == a_disp[i]
        IN /\ ~d.raised
           /\ \A c \in Channels : d.stat[c] # "raised"
           /\ (DispatchDone(d) /\ ~d.changed)
              => \A c \in Channels :
                    c \in a_config.channels <=> d.stat[c] \in {"true", "false"}

\* telegram failed, and discord and ntfy were attempted all the same
C5_Witness ==
    /\ Len(a_disp) >= 1
    /\ ~a_disp[1].changed
    /\ a_disp[1].stat["telegram"] = "false"
    /\ a_disp[1].stat["discord"] = "true"
    /\ a_disp[1].stat["ntfy"] = "false"

\* C35: a dispatch started by a send_alert call that returned true attempts
\* at least one channel before it ends, also when update_config replaces the
\* configuration while it runs.
C35_DispatchAttempts ==
    \A i \in 1..Len(a_disp) :
        DispatchDone(a_disp[i]) => \E c \in Channels : a_disp[i].stat[c] \in {"true", "false"}

C9_LastWriteWins ==
    /\ r_proc = "notebook" => nb.current_data = nb_decoded
    /\ r_proc = "web" => web.current_data = web_decoded

\* C10: a datagram whose decompression, text decoding or parsing fails
\* changes nothing: the snapshot, the time of the last update and the
\* history series stay as they were, and the loop goes on.
C10_DropNoChange ==
    [][ (r_count' # r_count /\ r_dgram'.fate = "undecoded")
        => (nb' = nb /\ web' = web) ]_vars

\* a datagram that failed to decode came in after one that was applied
C10_Witness ==
    /\ r_dgram.fate = "undecoded"
    /\ \/ r_dgram.to = "nb" /\ nb.last_data_time > 0 /\ nb.last_data_time < r_clock
       \/ r_dgram.to = "web" /\ web.last_update > 0 /\ web.last_update < r_clock

\* C36: applying a datagram that parsed as a document is all or nothing:
\* either the snapshot, the time of the last update and all eight history
\* series are updated from it, or none of them is.
C36_AllOrNothing ==
    [][ (r_count' # r_count /\ r_dgram'.to = "nb" /\ r_dgram'.fate = "decoded")
        => \/ nb' = nb
           \/ /\ nb'.current_data = nb_decoded'
              /\ nb'.last_data_time = r_clock'
              /\ \A i \in 1..Len(Series) :
                    nb'.history[i] = Push(nb.history[i], CatValue(nb_decoded', SeriesCat[i])) ]_vars

\* C38: in manual mode a datagram from an address other than sender_ip
\* changes neither the snapshot, nor the time of the last update, nor any
\* history series, and so leaves the connected flag as it would have been,
\* even when its payload decodes; in automatic mode no datagram is ignored
\* because of its source.
C38_SourceFilter ==
    [][ (r_count' # r_count /\ r_dgram'.to = "nb")
        => /\ (nb_sender_ip # "" /\ r_dgram'.src # nb_sender_ip)
                => /\ nb' = nb
                   /\ NbConnected(nb', r_clock') = NbConnected(nb, r_clock')
           /\ nb_sender_ip = "" => r_dgram'.fate # "ignored" ]_vars

\* in manual mode a datagram that decodes came from another address, after
\* one from sender_ip had been applied
C38_Witness ==
    /\ r_dgram.to = "nb"
    /\ nb_sender_ip # ""
    /\ r_dgram.src # nb_sender_ip
    /\ r_dgram.good
    /\ nb.last_data_time > 0
    /\ nb.last_data_time < r_clock

\* C11: the connected flag a consumer is given is true exactly when a packet
\* has been decoded and fewer than 5 seconds have passed since the last one
\* that was.
C11_Connected == r_flag.asked => (r_flag.connected <=> r_flag.expected)

\* the channels the configuration names, the generic webhook among them
NamedChannels == Channels \cup {"generic"}

\* the required credentials of channel ch are filled in
CredentialsPresent(cr, ch) ==
    \/ ch = "telegram" /\ cr.telegram_bot_token # "" /\ cr.telegram_chat_id # ""
    \/ ch = "discord" /\ cr.discord_webhook_url # ""
    \/ ch = "ntfy" /\ cr.ntfy_topic # ""
    \/ ch = "generic" /\ cr.generic_webhook_url # ""

\* channel ch was attempted: it has an outcome in stat (a dispatch's sends or
\* a probe's results)
TookPart(stat, ch) == ch \in Channels /\ stat[ch] \in {"true", "false"}

\* C16: each of the four channels takes part in a dispatch and in a probe
\* exactly when its required credentials are present; the channels without
\* credentials are passed over and the others still attempted.
C16_CredentialsDecide ==
    /\ p_test.pc = "ret" =>
          \A ch \in NamedChannels :
              TookPart(p_test.res, ch) <=> CredentialsPresent(a_config.creds, ch)
    /\ \A i \in 1..Len(a_disp) :
          DispatchDone(a_disp[i]) =>
              \A ch \in NamedChannels :
                  TookPart(a_disp[i].stat, ch) <=> CredentialsPresent(a_config.creds, ch)

\* C17: test_connection returns one boolean for each enabled channel and
\* none for the others; a channel's boolean is true exactly when its own
\* probe succeeded, false when it failed, timed out or raised; no probe
\* leaves test_connection, and an entry once written is not changed by the
\* probes that follow.
C17_ProbesIsolated ==
    /\ [](/\ \A c \in Channels :
               p_test.res[c] \in {"no", "skipped", "inflight", "true", "false"}
          /\ p_test.pc = "ret" =>
                \A c \in Channels :
                    /\ c \in a_config.channels <=> p_test.res[c] \in {"true", "false"}
                    /\ c \notin a_config.channels <=> p_test.res[c] = "skipped"
                    /\ p_test.res[c] = "true" <=> p_test.met[c] = "ok"
                    /\ p_test.res[c] = "false" <=>
                          p_test.met[c] \in {"non2xx", "exception", "timeout"}
          /\ p_test.pc = "run" /\ ProbeAtStatement(p_test) =>
                ENABLED (T_Start \/ T_Skip \/ T_Return))
    /\ [][\A c \in Channels :
             p_test.res[c] \in {"true", "false"} /\ p_test'.pc # "idle" =>
                 p_test'.res[c] = p_test.res[c] /\ p_test'.met[c] = p_test.met[c]]_vars

C17_Witness ==
    /\ p_test.pc = "ret"
    /\ p_test.res["telegram"] = "false" /\ p_test.met["telegram"] = "timeout"
    /\ p_test.res["discord"] = "true"
    /\ p_test.res["ntfy"] = "false" /\ p_test.met["ntfy"] = "exception"

\* C18: no step of test_connection or of a probe changes last_alerts or the
\* lock; last_alerts always holds exactly the stamps the granted send_alert
\* calls wrote, and a send_alert call that reached the cooldown test returns
\* for a key granted before returns true exactly when that grant is at least
\* cooldown_seconds old, whatever probes ran before or during the call.
C18_ProbeLeavesCooldown ==
    /\ [](/\ a_last_alerts = a_granted
          /\ \A t \in Threads :
                LET me == a_th[t]
                IN (me.pc = "ret" /\ me.why \in {"cooldown", "sent"}
                      /\ me.prev # NoEntry)
                   => (me.ret = "true" <=> me.now - me.prev >= me.cd))
    /\ [][p_test' # p_test =>
             /\ a_last_alerts' = a_last_alerts
             /\ a_lock' = a_lock
             /\ a_th' = a_th]_vars

\* a probe has answered while the key is in its cooldown, and the call made
\* after the grant is refused
C18_Witness ==
    /\ p_test.pc = "ret"
    /\ \E c \in Channels : p_test.res[c] = "true"
    /\ a_last_alerts["cpu_temp"] # NoEntry
    /\ a_th[1].pc = "ret" /\ a_th[1].why = "cooldown" /\ a_th[1].prev # NoEntry

\* C19: every restart signal is followed by a socket bound on the port that
\* was configured when the signal was raised.
C19_RestartServed == (rs_owed # 0) ~> (rs_owed = 0)

\* C20 (as stated): while the sender is paused no datagram is sent.
C20_SilentWhilePaused == [][(snd'.sent /\ ~snd.sent) => ~paused]_vars

\* C20 (amended): a datagram goes out only in a pass whose test of line 349
\* found the sender not paused, so at most the pass under way when the pause
\* is set still sends; a pass that found it paused sends nothing and sleeps;
\* a pass that found it not paused sends exactly one datagram unless it
\* raised; every sleep lasts INTERVALO, which no step changes; a toggle
\* changes nothing but paused; the loop can always take its next step and
\* ends only after running was cleared.
C20_PauseKeepsLoop ==
    /\ [](/\ snd.pc \in {"done", "closed"} => ~running
          /\ snd.pc \notin {"done", "closed"} => ENABLED SL_Step
          /\ snd.sent => snd.tested = "go"
          /\ snd.pc = "sleep" => (snd.sent <=> (snd.tested = "go" /\ ~snd.err))
          /\ snd.slept \in {0, INTERVALO})
    /\ [][/\ INTERVALO' = INTERVALO
          /\ paused' # paused => (snd' = snd /\ running' = running)]_vars

\* paused and resumed: a pass was skipped, and a later pass has sent its
\* datagram and is about to sleep
C20_Witness ==
    /\ s_toggles >= 2
    /\ ~paused
    /\ snd.skipped
    /\ snd.pc = "sleep" /\ snd.sent
    /\ snd.slept = INTERVALO

\* C39: once _quit has cleared running the loop starts no pass but ends:
\* it ends within the pass under way, whether or not the sender is paused,
\* then closes the hardware monitor and the socket, exactly once, and no
\* datagram is sent after the socket was closed.
C39_QuitCloses ==
    /\ [](snd.closes <= 1 /\ ~snd.late)
    /\ [][(snd.pc = "while" /\ ~running) => snd'.pc # "if"]_vars
    /\ (~running) ~> (snd.closes = 1)

\* C40: an exception raised in a pass (while the data is read, the payload
\* built or serialized, or in sendto) stays in that pass: no datagram goes
\* out in it, the loop goes on to sleep INTERVALO and, running still set,
\* starts the next pass.
C40_RaiseContained ==
    /\ [](snd.err => /\ snd.pc \in {"sleep", "while"}
                      /\ ~snd.sent
                      /\ ENABLED SL_Step
                      /\ snd.pc = "while" => snd.slept = INTERVALO)
    /\ [][(snd.err /\ snd' # snd)
            => \/ snd.pc = "sleep" /\ snd'.pc = "while"
               \/ snd.pc = "while" /\ snd'.pc = (IF running THEN "if" ELSE "done")]_vars

\* a pass raised, and a later pass has sent its datagram
C40_Witness ==
    /\ snd.failed
    /\ ~snd.err
    /\ snd.sent
    /\ snd.pc = "sleep"

\* C21: the pass of a receive loop that decodes a datagram hands the
\* snapshot to the history store (a record call) and to the alert engine (a
\* send_alert call) before the pass ends.
C21_FanOut ==
    [][(r_count' > r_count /\ r_dgram'.fate = "decoded")
       => (h_writes' > h_writes /\ a_calls' > a_calls)]_vars

(***************************************************************************)
(* Claims on the history store                                             *)
(***************************************************************************)
\* C26: a record call that returns true has appended exactly one row, the
\* columns read from its snapshot; a call that fails anywhere returns false,
\* never raises, and leaves the table as it was; no other step of record
\* changes the table.
C26_RecordAtomic ==
    /\ [](\A t \in HThreads :
            (h_th[t].op = "record" /\ h_th[t].pc = "ret")
            => /\ h_th[t].ret.kind = "bool"
               /\ h_th[t].ret.b \in {"true", "false"}
               /\ h_th[t].ret.b = "false" <=> h_th[t].failed)
    /\ [][\A t \in HThreads :
            (h_th'[t].op = "record" /\ h_th[t] # h_th'[t])
            => IF h_th'[t].pc = "ret" /\ h_th'[t].ret.b = "true"
               THEN h_rows' = Append(h_rows, [ts |-> h_th[t].pending.ts,
                                              col |-> RowOf(h_th[t].doc)])
               ELSE h_rows' = h_rows]_vars

\* a record whose commit failed has returned false; the table holds the rows
\* it held before
C26_Witness ==
    /\ h_th[1].op = "record" /\ h_th[1].pc = "ret"
    /\ h_th[1].ret.b = "false"
    /\ h_th[1].pending # NoRow
    /\ Len(h_rows) = 3

\* the rows of the table inside the window of a query made now
Matching(hours) == {i \in 1..Len(h_rows) : h_rows[i].ts > h_clock - hours}

C28_Stats ==
    [][\A t \in HThreads :
         (h_th'[t].op = "get_stats" /\ h_th'[t].pc = "ret" /\ h_th[t].pc # "ret"
          /\ ~h_th'[t].failed)
         => LET me    == h_th'[t]
                st    == me.ret.stats
                match == Matching(me.hours)
                vals  == {h_rows[i].col[me.metric] : i \in match}
            IN IF me.metric \notin valid_metrics \/ match = {}
               THEN st = ZeroStats
               ELSE /\ st.kind = "stats"
                    /\ st.count = Cardinality(match)
                    /\ st.min \in vals /\ \A v \in vals : st.min <= v
                    /\ st.max \in vals /\ \A v \in vals : st.max >= v
                    /\ st.sum = SumOf(h_rows, match, me.metric)]_vars

\* the retention the caller gave: its argument, or retention_days when it
\* gave none
DaysAsGiven(days, retention) == IF days = NoDays THEN retention ELSE days

\* C29: cleanup_old deletes exactly the rows older than the caller's number
\* of days before now and returns how many it removed.
C29_Cleanup ==
    [][\A t \in HThreads :
         (h_th'[t].op = "cleanup_old" /\ h_th'[t].pc = "ret" /\ h_th[t].pc # "ret"
          /\ ~h_th'[t].failed)
         => LET given == DaysAsGiven(h_th[t].asked, h_retention)
                old   == {i \in 1..Len(h_rows) :
                            h_rows[i].ts < h_clock - given * HOURS_PER_DAY}
            IN /\ h_th'[t].ret.n = Cardinality(old)
               /\ Len(h_rows') = Len(h_rows) - Cardinality(old)
               /\ \A j \in 1..Len(h_rows') :
                     h_rows'[j].ts >= h_clock - given * HOURS_PER_DAY]_vars

\* thread t has a write to the store under way: the INSERT and its commit,
\* the DELETE and its commit, the VACUUM
Writing(t) == h_th[t].pc \in {"insert", "commit", "delete", "vacuum"}

\* C30: a thread that is writing to the store holds the write lock, so no
\* two threads are writing at once.
C30_WritesUnderLock ==
    /\ \A t \in HThreads : Writing(t) => h_lock = t
    /\ \A t, u \in HThreads : (Writing(t) /\ Writing(u)) => t = u

(***************************************************************************)
(* Claims on the colouring of values                                       *)
(***************************************************************************)
\* the level a colour key of the dashboard or a class of the page stands for
LevelOf(out) ==
    CASE out = "critical" -> "CRITICAL"
      [] out = "warning"  -> "WARNING"
      [] OTHER            -> "OK"

Classified(value, warn, crit) ==
    IF value >= crit THEN "CRITICAL"
    ELSE IF value >= warn THEN "WARNING"
    ELSE "OK"

\* C24: a value drawn against a warning and a critical threshold is shown as
\* CRITICAL when it is at or above the critical threshold, else as WARNING
\* when it is at or above the warning threshold, else as OK, on the
\* dashboard and on the page, whatever the two thresholds are.
C24_Classified ==
    /\ k_call.crit # NoThreshold =>
           LevelOf(k_call.out) = Classified(k_call.value, k_call.warn, k_call.crit)
    /\ k_page.crit # NoThreshold =>
           LevelOf(k_page.out) = Classified(k_page.value, k_page.warn, k_page.crit)

(***************************************************************************)
(* Claims on the hardware monitor                                          *)
(***************************************************************************)
\* C22: the dictionary fetch_data returned for the sensors in one order is the
\* dictionary it returns for the same sensors in any other order: every
\* field of cpu, gpu, mobo and ram, and the storage and fans lists.
C22_OrderIndependent ==
    m_data # NoData => m_data = fetch_data(m_hw)

\* the sensors of a Storage device that the claim counts: a temperature
\* above 0, a level (health) sensor, a throughput or data sensor above 0
Qualifying(r) ==
    \/ r.s_type = "Temperature" /\ _safe_value(r.val) > 0
    \/ r.s_type = "Level"
    \/ r.s_type \in {"Throughput", "Data"} /\ _safe_value(r.val) > 0

SensorsOf(hw, name) == {hw[i] : i \in {j \in 1..Len(hw) : hw[j].hw = name}}
Disks(hw) == {hw[i].hw : i \in {j \in 1..Len(hw) : hw[j].hw_type = "Storage"}}
Entries(data, name) ==
    {data.storage[i] : i \in {j \in 1..Len(data.storage) : data.storage[j].name = name}}

\* C23: a Storage device is in the storage list exactly when one of its
\* sensors qualifies, and a device whose qualifying sensors are temperatures
\* only is listed with health 100.
C23_StorageListed ==
    m_data # NoData =>
        /\ \A e \in {m_data.storage[i] : i \in 1..Len(m_data.storage)} : e.name \in Disks(m_hw)
        /\ \A d \in Disks(m_hw) :
               LET counted == {r \in SensorsOf(m_hw, d) : Qualifying(r)}
               IN /\ (Entries(m_data, d) # {}) <=> (counted # {})
                  /\ (counted # {} /\ \A r \in counted : r.s_type = "Temperature") =>
                         \A e \in Entries(m_data, d) : e.health = 100

\* the readings of hw that are sensors named name of type s_type of disk d
Named(hw, d, s_type, name) ==
    {r \in SensorsOf(hw, d) : r.s_type = s_type /\ r.name = name}

\* C31: the health of a listed storage device is the value of its "Available
\* Spare" level sensor when it has one, in whatever order its sensors come;
\* without one it is max(0, 100 - value) of its "Percentage Used" level
\* sensor; with neither it is 100.
C31_Health ==
    m_data # NoData =>
        \A d \in Disks(m_hw) : \A e \in Entries(m_data, d) :
            LET spare == Named(m_hw, d, "Level", "Available Spare")
                used  == Named(m_hw, d, "Level", "Percentage Used")
            IN IF spare # {} THEN \A r \in spare : e.health = r.val
               ELSE IF used # {} THEN \A r \in used : e.health = Max(0, 100 - r.val)
               ELSE e.health = 100

\* the CPU load sensors of hw whose name denotes the total, in the order of hw
Totals(hw) ==
    SelectSeq(hw, LAMBDA r : r.hw_type = "Cpu" /\ r.s_type = "Load" /\ In("Total", r.name))

RECURSIVE FirstNonZero(_)
FirstNonZero(rs) ==
    IF rs = <<>> THEN 0
    ELSE IF Head(rs).val # 0 THEN Head(rs).val
    ELSE FirstNonZero(Tail(rs))

\* C32: cpu.load is the value of the first total-load sensor of a CPU, in
\* the order of enumeration, whose value is not 0, and 0 when there is none.
C32_FirstTotal ==
    m_data # NoData => m_data.cpu.load = FirstNonZero(Totals(m_hw))

\* the fan readings of hw above 100 rpm
Turning(hw) == SelectSeq(hw, LAMBDA r : r.s_type = "Fan" /\ r.val > 100)
BoardFans(hw) == SelectSeq(hw, LAMBDA r : r.hw_type = "Motherboard" /\ r.s_type = "Fan" /\ r.val > 100)
FanEntry(r) == [name |-> r.name, rpm |-> r.val]

InitCodec ==
    /\ CodecAtRest
    /\ AlertAtRest({DefaultConfig})
    /\ RecvAtRest({"notebook"}, {""})
    /\ RestartAtRest({DefaultPort})
    /\ SenderAtRest({DefaultInterval})
    /\ HistAtRest({1}, {<<>>})
    /\ MonAtRest({<<>>})
    /\ ClassAtRest({DefaultAlertas})

SpecCodec == InitCodec /\ [][NextCodec]_vars

\* the callers' side depends on the channels only through any_enabled
InitAlert ==
    /\ AlertAtRest({cfg \in Configs : cfg.channels \in {{}, Channels}})
    /\ CodecAtRest
    /\ RecvAtRest({"notebook"}, {""})
    /\ RestartAtRest({DefaultPort})
    /\ SenderAtRest({DefaultInterval})
    /\ HistAtRest({1}, {<<>>})
    /\ MonAtRest({<<>>})
    /\ ClassAtRest({DefaultAlertas})

SpecAlert == InitAlert /\ [][NextAlert]_vars

InitDispatch ==
    /\ AlertAtRest({cfg \in Configs : cfg.enabled /\ cfg.min_level = "warning"})
    /\ CodecAtRest
    /\ RecvAtRest({"notebook"}, {""})
    /\ RestartAtRest({DefaultPort})
    /\ SenderAtRest({DefaultInterval})
    /\ HistAtRest({1}, {<<>>})
    /\ MonAtRest({<<>>})
    /\ ClassAtRest({DefaultAlertas})

SpecDispatch == InitDispatch /\ [][NextDispatch]_vars

InitRecv ==
    /\ RecvAtRest({"notebook", "web"}, {"", "10.0.0.2"})
    /\ RestartAtRest({DefaultPort})
    /\ SenderAtRest({DefaultInterval})
    /\ HistAtRest({1}, {<<>>})
    /\ MonAtRest({<<>>})
    /\ ClassAtRest({DefaultAlertas})
    /\ CodecAtRest
    /\ AlertAtRest({DefaultConfig})

SpecRecv == InitRecv /\ [][NextRecv]_vars

InitProbe ==
    /\ AlertAtRest({ConfigOf(cr, 2) : cr \in {x \in Creds : x.generic_webhook_url = ""}})
    /\ CodecAtRest
    /\ RecvAtRest({"notebook"}, {""})
    /\ RestartAtRest({DefaultPort})
    /\ SenderAtRest({DefaultInterval})
    /\ HistAtRest({1}, {<<>>})
    /\ MonAtRest({<<>>})
    /\ ClassAtRest({DefaultAlertas})

SpecProbe == InitProbe /\ [][NextProbeSide]_vars

\* the clock stands still: with a cooldown of one second the first alert is
\* granted at once
InitCreds ==
    /\ AlertAtRest({ConfigOf(cr, 1) : cr \in Creds})
    /\ CodecAtRest
    /\ RecvAtRest({"notebook"}, {""})
    /\ RestartAtRest({DefaultPort})
    /\ SenderAtRest({DefaultInterval})
    /\ HistAtRest({1}, {<<>>})
    /\ MonAtRest({<<>>})
    /\ ClassAtRest({DefaultAlertas})

SpecCreds == InitCreds /\ [][NextCreds]_vars

InitLive ==
    /\ RecvAtRest({"notebook", "web"}, {""})
    /\ RestartAtRest({DefaultPort})
    /\ SenderAtRest({DefaultInterval})
    /\ HistAtRest({1}, {<<>>})
    /\ MonAtRest({<<>>})
    /\ ClassAtRest({DefaultAlertas})
    /\ CodecAtRest
    /\ AlertAtRest({DefaultConfig})

SpecLive == InitLive /\ [][NextLive]_vars

InitRestart ==
    /\ RestartAtRest(Ports)
    /\ SenderAtRest({DefaultInterval})
    /\ HistAtRest({1}, {<<>>})
    /\ MonAtRest({<<>>})
    /\ ClassAtRest({DefaultAlertas})
    /\ CodecAtRest
    /\ AlertAtRest({DefaultConfig})
    /\ RecvAtRest({"notebook"}, {""})

\* the receive thread keeps running (recvfrom returns within a second) and
\* the settings handler, once begun, reaches its last statement
SpecRestart ==
    /\ InitRestart
    /\ [][NextRestart]_vars
    /\ WF_vars(RX_Step)
    /\ WF_vars(UI_Signal)

InitSender ==
    /\ SenderAtRest(Intervals)
    /\ HistAtRest({1}, {<<>>})
    /\ MonAtRest({<<>>})
    /\ ClassAtRest({DefaultAlertas})
    /\ CodecAtRest
    /\ AlertAtRest({DefaultConfig})
    /\ RecvAtRest({"notebook"}, {""})
    /\ RestartAtRest({DefaultPort})

SpecSender == InitSender /\ [][NextSender]_vars

\* the sender's process as a whole: the loop's thread is scheduled as long
\* as the process lives
SpecProcess == InitSender /\ [][NextProcess]_vars /\ WF_vars(SL_Step \/ SL_Cleanup)

\* the loop's thread alone, scheduled for ever
SpecLoop == InitSender /\ [][NextSender]_vars /\ WF_vars(SL_Step \/ SL_Cleanup)
InitHist ==
    /\ HistAtRest(Retentions, Stores)
    /\ MonAtRest({<<>>})
    /\ ClassAtRest({DefaultAlertas})
    /\ CodecAtRest
    /\ AlertAtRest({DefaultConfig})
    /\ RecvAtRest({"notebook"}, {""})
    /\ RestartAtRest({DefaultPort})
    /\ SenderAtRest({DefaultInterval})

SpecHist == InitHist /\ [][NextHist]_vars
InitHistLock ==
    /\ HistAtRest({1}, {<<>>})
    /\ MonAtRest({<<>>})
    /\ ClassAtRest({DefaultAlertas})
    /\ CodecAtRest
    /\ AlertAtRest({DefaultConfig})
    /\ RecvAtRest({"notebook"}, {""})
    /\ RestartAtRest({DefaultPort})
    /\ SenderAtRest({DefaultInterval})

SpecHistLock == InitHistLock /\ [][NextHistLock]_vars

InitClass ==
    /\ ClassAtRest({DefaultAlertas})
    /\ MonAtRest({<<>>})
    /\ HistAtRest({1}, {<<>>})
    /\ CodecAtRest
    /\ AlertAtRest({DefaultConfig})
    /\ RecvAtRest({"notebook"}, {""})
    /\ RestartAtRest({DefaultPort})
    /\ SenderAtRest({DefaultInterval})

SpecClass == InitClass /\ [][NextClass]_vars

InitMonitor ==
    /\ MonAtRest(Enumerations(MachinePool, MaxReadings))
    /\ ClassAtRest({DefaultAlertas})
    /\ HistAtRest({1}, {<<>>})
    /\ CodecAtRest
    /\ AlertAtRest({DefaultConfig})
    /\ RecvAtRest({"notebook"}, {""})
    /\ RestartAtRest({DefaultPort})
    /\ SenderAtRest({DefaultInterval})

SpecMonitor == InitMonitor /\ [][NextMonitor]_vars

InitStorage ==
    /\ MonAtRest(Enumerations(DiskPool, MaxDiskSensors))
    /\ ClassAtRest({DefaultAlertas})
    /\ HistAtRest({1}, {<<>>})
    /\ CodecAtRest
    /\ AlertAtRest({DefaultConfig})
    /\ RecvAtRest({"notebook"}, {""})
    /\ RestartAtRest({DefaultPort})
    /\ SenderAtRest({DefaultInterval})

SpecStorage == InitStorage /\ [][NextMonitor]_vars

InitSensors ==
    /\ MonAtRest(Enumerations(SensorPool, MaxReadings))
    /\ ClassAtRest({DefaultAlertas})
    /\ HistAtRest({1}, {<<>>})
    /\ CodecAtRest
    /\ AlertAtRest({DefaultConfig})
    /\ RecvAtRest({"notebook"}, {""})
    /\ RestartAtRest({DefaultPort})
    /\ SenderAtRest({DefaultInterval})

SpecSensors == InitSensors /\ [][M_Fetch]_vars
====
